---------------------------- MODULE Spec2Model ----------------------------
(***************************************************************************)
(* Model of the Smart QA Recorder: the locator generator                   *)
(* (src/src/content/locator-generator.ts) and the recorder built on it     *)
(* (content script, background worker, side panel).                        *)
(*                                                                         *)
(* Strings.  A JavaScript string is a sequence of tokens.  Every character *)
(* that comes from the page (attribute values, inner text, tag names) is   *)
(* one token of length one: "a", "'", "\n".  A fragment that the source    *)
(* writes literally inside a template (page.getByTestId(' ...) is one      *)
(* token holding the whole fragment.  The string denoted is the            *)
(* concatenation of the tokens, so `${a}x${b}` is  a \o <<"x">> \o b.      *)
(*                                                                         *)
(* Values.  null and undefined are the one-token strings NULL and          *)
(* UNDEFINED (no page string is equal to them: page strings are made of    *)
(* one-character tokens).  An object and a function are modelled by the    *)
(* string they coerce to inside a template literal.                        *)
(***************************************************************************)
EXTENDS Integers, Sequences, FiniteSets, TLC

VARIABLES
    el,        \* the element handed to generateLocators
    labels,    \* the <label> elements of the document, in document order
    locators,  \* outcome of generateLocators(el)
    str,       \* argument of escape
    escaped,   \* result of escape(str)
    tagArg,    \* first argument of inferRole
    typeArg,   \* second argument of inferRole
    inferred,  \* result of inferRole(tagArg, typeArg)
    gotLabelText,  \* outcome of getLabelText(el)
    sbIsRecording,  \* side panel: its isRecording state
    bgIsRecording,  \* background: isRecording
    recordedSteps,  \* background: recordedSteps
    csIsRecording,  \* content script of each tab: isRecording
    activeTab,      \* the active tab of the current window, NoTab when none
    attached,       \* tabs the extension's debugger is attached to
    toBackground,   \* runtime messages on their way to the background
    toContent,      \* per tab, messages on their way to its content script
    toSidebar,      \* responses and broadcasts on their way to the side panel
    pending,        \* chrome calls of the background whose callback has not run
    requests,       \* START/STOP requests of the side panel and their answers
    logs,           \* how many log messages printLog has sent, and the last
    clock,          \* Date.now(), advanced by every DOM event
    lastEvent,      \* the DOM event handleEvent ran on last
    cdpEvent,       \* the debugger event delivered last, and how many so far
    session,        \* steps received while recording since the last START
    sbRunning,      \* side panel: its running state
    storageRunning, \* chrome.storage.local: running
    eko,            \* background/index.ts: eko, the run whose agent it holds
    agentRuns,      \* the 'run' requests of the side panel and how far each is
    agentMsgs,      \* 'run' and 'stop' messages on their way to the background
    stopMsgs,       \* 'stop' messages on their way to the side panel
    manual          \* the GENERATE_MANUAL_TESTCASE requests and how far each is

\* the arguments and results of the locator generator's entry points
locVars == <<el, labels, locators, str, escaped, tagArg, typeArg, inferred, gotLabelText>>

\* the state of the recorder's three scripts and of the browser around them
recVars ==
    <<sbIsRecording, bgIsRecording, recordedSteps, csIsRecording, activeTab,
      attached, toBackground, toContent, toSidebar, pending, requests, logs,
      clock, lastEvent, cdpEvent, session>>

\* the agent runner and the manual test case generator
agentVars == <<sbRunning, storageRunning, eko, agentRuns, agentMsgs, stopMsgs, manual>>

vars == <<locVars, recVars, agentVars>>

---------------------------------------------------------------------------
(* JavaScript values                                                       *)

NULL == <<"null">>
UNDEFINED == <<"undefined">>
\* an object / a function, as `${v}` renders it
OBJECT == <<"[object Object]">>
FUNCTION == <<"function Object() { [native code] }">>
\* not yet called
PENDING == <<"pending">>

\* ToBoolean on the values of the model: null, undefined and "" are falsy
Truthy(v) == v # NULL /\ v # UNDEFINED /\ v # <<>>

\* a || b
Or(a, b) == IF Truthy(a) THEN a ELSE b

\* String.prototype.trim: the white space and line terminator characters
WhiteSpace == {" ", "\t", "\n", "\r"}

RECURSIVE TrimStart(_)
TrimStart(s) ==
    IF s # <<>> /\ Head(s) \in WhiteSpace THEN TrimStart(Tail(s)) ELSE s

RECURSIVE TrimEnd(_)
TrimEnd(s) ==
    IF s # <<>> /\ s[Len(s)] \in WhiteSpace
    THEN TrimEnd(SubSeq(s, 1, Len(s) - 1))
    ELSE s

Trim(s) == TrimEnd(TrimStart(s))

\* s.substring(0, n)
Substring0(s, n) == SubSeq(s, 1, IF Len(s) < n THEN Len(s) ELSE n)

\* s.replace(/c/g, r): every occurrence of the character c becomes r
RECURSIVE ReplaceAll(_, _, _)
ReplaceAll(s, c, r) ==
    IF s = <<>> THEN <<>>
    ELSE (IF Head(s) = c THEN r ELSE <<Head(s)>>) \o ReplaceAll(Tail(s), c, r)

\* s.replace("c", r): only the first occurrence (the pattern without /g)
RECURSIVE ReplaceFirst(_, _, _)
ReplaceFirst(s, c, r) ==
    IF s = <<>> THEN <<>>
    ELSE IF Head(s) = c THEN r \o Tail(s)
    ELSE <<Head(s)>> \o ReplaceFirst(Tail(s), c, r)

\* character map of String.prototype.toLowerCase on the letters in use
LowerChar(c) ==
    CASE c = "A" -> "a" [] c = "B" -> "b" [] c = "D" -> "d" [] c = "I" -> "i"
      [] c = "N" -> "n" [] c = "P" -> "p" [] c = "T" -> "t" [] c = "U" -> "u"
      [] c = "V" -> "v" [] c = "H" -> "h" [] c = "O" -> "o" [] c = "C" -> "c"
      [] c = "E" -> "e" [] c = "L" -> "l" [] c = "R" -> "r" [] c = "S" -> "s"
      [] c = "X" -> "x"
      [] OTHER -> c

ToLowerCase(s) == [i \in 1..Len(s) |-> LowerChar(s[i])]

\* join that walks the list from its end
RECURSIVE JoinReversed(_, _)
JoinReversed(list, sep) ==
    IF list = <<>> THEN <<>>
    ELSE IF Len(list) = 1 THEN list[1]
    ELSE JoinReversed(Tail(list), sep) \o sep \o list[1]

\* Array.prototype.join
RECURSIVE Join(_, _)
Join(list, sep) ==
    IF list = <<>> THEN <<>>
    ELSE IF Len(list) = 1 THEN list[1]
    ELSE list[1] \o sep \o Join(Tail(list), sep)

---------------------------------------------------------------------------
(* LocatorGenerator.escape                                                 *)

\* escape with the quote pattern lacking /g
escapeFirstOnly(s) ==
    Trim(ReplaceAll(ReplaceFirst(s, "'", <<"\\", "'">>), "\n", <<" ">>))

escape(s) ==
    Trim(ReplaceAll(ReplaceAll(s, "'", <<"\\", "'">>), "\n", <<" ">>))

---------------------------------------------------------------------------
(* Page strings used as keys and literals compared with page data          *)

K_button == <<"b", "u", "t", "t", "o", "n">>
K_a == <<"a">>
K_img == <<"i", "m", "g">>
K_input == <<"i", "n", "p", "u", "t">>
K_select == <<"s", "e", "l", "e", "c", "t">>
K_textarea == <<"t", "e", "x", "t", "a", "r", "e", "a">>
K_h1 == <<"h", "1">>
K_h2 == <<"h", "2">>
K_h3 == <<"h", "3">>
K_h4 == <<"h", "4">>
K_h5 == <<"h", "5">>
K_h6 == <<"h", "6">>
K_label == <<"l", "a", "b", "e", "l">>
K_submit == <<"s", "u", "b", "m", "i", "t">>
K_checkbox == <<"c", "h", "e", "c", "k", "b", "o", "x">>
K_radio == <<"r", "a", "d", "i", "o">>
K_text == <<"t", "e", "x", "t">>
K_email == <<"e", "m", "a", "i", "l">>
K_password == <<"p", "a", "s", "s", "w", "o", "r", "d">>
K_search == <<"s", "e", "a", "r", "c", "h">>
K_number == <<"n", "u", "m", "b", "e", "r">>
K_constructor == <<"c", "o", "n", "s", "t", "r", "u", "c", "t", "o", "r">>

---------------------------------------------------------------------------
(* LocatorGenerator.inferRole                                              *)

\* properties every object literal inherits from Object.prototype
\* (the ones whose names are all lower case)
ObjectPrototype == K_constructor :> FUNCTION

\* obj[key] on an object literal: own property, else inherited, else undefined
Get(obj, key) ==
    IF key \in DOMAIN obj THEN obj[key]
    ELSE IF key \in DOMAIN ObjectPrototype THEN ObjectPrototype[key]
    ELSE UNDEFINED

\* roleMap.input, the nested table keyed by the input type
roleMapInput ==
    K_button :> <<"button">> @@ K_submit :> <<"button">> @@
    K_checkbox :> <<"checkbox">> @@ K_radio :> <<"radio">> @@
    K_text :> <<"textbox">> @@ K_email :> <<"textbox">> @@
    K_password :> <<"textbox">> @@ K_search :> <<"searchbox">> @@
    K_number :> <<"spinbutton">>

\* roleMap; the value under 'input' is the nested object
roleMap ==
    K_button :> <<"button">> @@ K_a :> <<"link">> @@ K_img :> <<"img">> @@
    K_input :> OBJECT @@
    K_select :> <<"combobox">> @@ K_textarea :> <<"textbox">> @@
    K_h1 :> <<"heading">> @@ K_h2 :> <<"heading">> @@ K_h3 :> <<"heading">> @@
    K_h4 :> <<"heading">> @@ K_h5 :> <<"heading">> @@ K_h6 :> <<"heading">>

inferRole(tagName, type) ==
    LET tag == ToLowerCase(tagName) IN
    IF tag = K_input /\ Truthy(type)
    THEN Or(Get(roleMapInput, type), <<"textbox">>)
    ELSE Or(Get(roleMap, tag), NULL)

---------------------------------------------------------------------------
(* The DOM as the generator reads it                                       *)

\* el.getAttribute(name): null when the attribute is absent
getAttribute(e, name) ==
    IF name \in DOMAIN e.attributes THEN e.attributes[name] ELSE NULL

\* document.querySelector(`label[for="${id}"]`) raises a SyntaxError when the
\* text is no selector: inside the double-quoted string a double quote ends
\* the string early and a line break is not allowed.  (Ids with a backslash,
\* which starts a CSS escape, are outside the ids the model draws.)
SelectorIsInvalid(id) ==
    \E i \in 1..Len(id) : id[i] \in {"\"", "\n", "\r"}

\* the labels of the document whose for attribute equals id, in document order
LabelsFor(doc, id) == SelectSeq(doc, LAMBDA l : l.htmlFor = id)

\* el.closest('label'): the element itself or its nearest ancestor, if a label
ClosestLabels(e) ==
    IF ToLowerCase(e.tagName) = K_label
    THEN <<[tagName |-> e.tagName, innerText |-> e.innerText]>>
    ELSE SelectSeq(e.ancestors, LAMBDA a : ToLowerCase(a.tagName) = K_label)

THROWN == <<"SyntaxError">>

(* LocatorGenerator.getLabelText; THROWN when querySelector raises         *)
getLabelText(e, doc) ==
    IF Truthy(e.id) /\ SelectorIsInvalid(e.id) THEN THROWN
    ELSE IF Truthy(e.id) /\ LabelsFor(doc, e.id) # <<>>
    THEN Trim(LabelsFor(doc, e.id)[1].innerText)
    ELSE IF ClosestLabels(e) # <<>> THEN Trim(ClosestLabels(e)[1].innerText)
    ELSE NULL

---------------------------------------------------------------------------
(* LocatorGenerator.generateLocators                                       *)

\* innerText is truncated to this many characters
TextLimit == 50

InputLikeTags == {K_input, K_textarea, K_select}

\* const text = el.innerText?.trim().substring(0, 50)
TextOf(e) ==
    IF e.innerText = UNDEFINED THEN UNDEFINED
    ELSE Substring0(Trim(e.innerText), TextLimit)

\* const dataTestId = el.getAttribute('data-testid') || el.getAttribute('data-test-id')
DataTestIdOf(e) ==
    Or(getAttribute(e, "data-testid"), getAttribute(e, "data-test-id"))

\* role with the inferred role preferred to the attribute
RoleOfInferredFirst(e) ==
    Or(inferRole(ToLowerCase(e.tagName), e.type), getAttribute(e, "role"))

\* const role = el.getAttribute('role') || this.inferRole(tagName, type)
RoleOf(e) ==
    Or(getAttribute(e, "role"), inferRole(ToLowerCase(e.tagName), e.type))

\* accessible name with the label text preferred to aria-label
AccessibleNameLabelFirst(ariaLabel, labelText, text) ==
    Or(Or(labelText, ariaLabel), text)

\* const accessibleName = ariaLabel || labelText || text
AccessibleName(ariaLabel, labelText, text) == Or(Or(ariaLabel, labelText), text)

\* the Playwright chain with the role branch tested before the test id
PlaywrightOfRoleFirst(e, labelText) ==
    LET tagName == ToLowerCase(e.tagName)
        role == RoleOf(e)
        text == TextOf(e)
        id == e.id
        dataTestId == DataTestIdOf(e)
        ariaLabel == getAttribute(e, "aria-label")
        placeholder == e.placeholder
        accessibleName == AccessibleName(ariaLabel, labelText, text)
        escapedText == IF Truthy(accessibleName) THEN escape(accessibleName) ELSE <<>>
        className == Join(e.classList, <<".">>)
    IN  IF Truthy(role) /\ Truthy(accessibleName)
        THEN <<"page.getByRole('">> \o role \o <<"', { name: '">>
                 \o escapedText \o <<"' })">>
        ELSE IF Truthy(dataTestId)
        THEN <<"page.getByTestId('">> \o dataTestId \o <<"')">>
        ELSE IF tagName \in InputLikeTags /\ Truthy(labelText)
        THEN <<"page.getByLabel('">> \o escape(labelText) \o <<"')">>
        ELSE IF Truthy(placeholder)
        THEN <<"page.getByPlaceholder('">> \o escape(placeholder) \o <<"')">>
        ELSE IF Truthy(id)
        THEN <<"page.locator('#">> \o id \o <<"')">>
        ELSE IF Truthy(text) /\ Len(text) > 0
        THEN <<"page.getByText('">> \o escape(text) \o <<"')">>
        ELSE IF Truthy(className) THEN tagName \o <<".">> \o className
        ELSE tagName

\* the Playwright chain with a name branch ahead of the test id
PlaywrightOfWithName(e, labelText) ==
    LET tagName == ToLowerCase(e.tagName)
        role == RoleOf(e)
        text == TextOf(e)
        id == e.id
        dataTestId == DataTestIdOf(e)
        ariaLabel == getAttribute(e, "aria-label")
        placeholder == e.placeholder
        accessibleName == AccessibleName(ariaLabel, labelText, text)
        escapedText == IF Truthy(accessibleName) THEN escape(accessibleName) ELSE <<>>
        className == Join(e.classList, <<".">>)
    IN  IF Truthy(e.name)
        THEN <<"page.locator('[name=\"">> \o e.name \o <<"\"]')">>
        ELSE IF Truthy(dataTestId)
        THEN <<"page.getByTestId('">> \o dataTestId \o <<"')">>
        ELSE IF Truthy(role) /\ Truthy(accessibleName)
        THEN <<"page.getByRole('">> \o role \o <<"', { name: '">>
                 \o escapedText \o <<"' })">>
        ELSE IF tagName \in InputLikeTags /\ Truthy(labelText)
        THEN <<"page.getByLabel('">> \o escape(labelText) \o <<"')">>
        ELSE IF Truthy(placeholder)
        THEN <<"page.getByPlaceholder('">> \o escape(placeholder) \o <<"')">>
        ELSE IF Truthy(id)
        THEN <<"page.locator('#">> \o id \o <<"')">>
        ELSE IF Truthy(text) /\ Len(text) > 0
        THEN <<"page.getByText('">> \o escape(text) \o <<"')">>
        ELSE IF Truthy(className) THEN tagName \o <<".">> \o className
        ELSE tagName

\* the Playwright chain with the label branch ahead of the role branch
PlaywrightOfLabelFirst(e, labelText) ==
    LET tagName == ToLowerCase(e.tagName)
        role == RoleOf(e)
        text == TextOf(e)
        id == e.id
        dataTestId == DataTestIdOf(e)
        ariaLabel == getAttribute(e, "aria-label")
        placeholder == e.placeholder
        accessibleName == AccessibleName(ariaLabel, labelText, text)
        escapedText == IF Truthy(accessibleName) THEN escape(accessibleName) ELSE <<>>
        className == Join(e.classList, <<".">>)
    IN  IF Truthy(dataTestId)
        THEN <<"page.getByTestId('">> \o dataTestId \o <<"')">>
        ELSE IF tagName \in InputLikeTags /\ Truthy(labelText)
        THEN <<"page.getByLabel('">> \o escape(labelText) \o <<"')">>
        ELSE IF Truthy(role) /\ Truthy(accessibleName)
        THEN <<"page.getByRole('">> \o role \o <<"', { name: '">>
                 \o escapedText \o <<"' })">>
        ELSE IF Truthy(placeholder)
        THEN <<"page.getByPlaceholder('">> \o escape(placeholder) \o <<"')">>
        ELSE IF Truthy(id)
        THEN <<"page.locator('#">> \o id \o <<"')">>
        ELSE IF Truthy(text) /\ Len(text) > 0
        THEN <<"page.getByText('">> \o escape(text) \o <<"')">>
        ELSE IF Truthy(className) THEN tagName \o <<".">> \o className
        ELSE tagName

\* the Playwright chain
PlaywrightOf(e, labelText) ==
    LET tagName == ToLowerCase(e.tagName)
        role == RoleOf(e)
        text == TextOf(e)
        id == e.id
        dataTestId == DataTestIdOf(e)
        ariaLabel == getAttribute(e, "aria-label")
        placeholder == e.placeholder
        accessibleName == AccessibleName(ariaLabel, labelText, text)
        escapedText == IF Truthy(accessibleName) THEN escape(accessibleName) ELSE <<>>
        className == Join(e.classList, <<".">>)
    IN  IF Truthy(dataTestId)
        THEN <<"page.getByTestId('">> \o dataTestId \o <<"')">>
        ELSE IF Truthy(role) /\ Truthy(accessibleName)
        THEN <<"page.getByRole('">> \o role \o <<"', { name: '">>
                 \o escapedText \o <<"' })">>
        ELSE IF tagName \in InputLikeTags /\ Truthy(labelText)
        THEN <<"page.getByLabel('">> \o escape(labelText) \o <<"')">>
        ELSE IF Truthy(placeholder)
        THEN <<"page.getByPlaceholder('">> \o escape(placeholder) \o <<"')">>
        ELSE IF Truthy(id)
        THEN <<"page.locator('#">> \o id \o <<"')">>
        ELSE IF Truthy(text) /\ Len(text) > 0
        THEN <<"page.getByText('">> \o escape(text) \o <<"')">>
        ELSE IF Truthy(className) THEN tagName \o <<".">> \o className
        ELSE tagName

\* the CSS chain with the test id tested before the id
CssOfTestIdFirst(e) ==
    LET tagName == ToLowerCase(e.tagName)
        id == e.id
        dataTestId == DataTestIdOf(e)
        placeholder == e.placeholder
        classNames == Join(e.classList, <<".">>)
    IN  IF Truthy(dataTestId)
        THEN <<"[data-testid=\"">> \o dataTestId \o <<"\"]">>
        ELSE IF Truthy(id)
        THEN <<"#">> \o id
        ELSE IF Truthy(getAttribute(e, "data-test-id"))
        THEN <<"[data-test-id=\"">> \o getAttribute(e, "data-test-id") \o <<"\"]">>
        ELSE IF Truthy(e.name)
        THEN tagName \o <<"[name=\"">> \o e.name \o <<"\"]">>
        ELSE IF Truthy(placeholder)
        THEN tagName \o <<"[placeholder=\"">> \o placeholder \o <<"\"]">>
        ELSE IF Truthy(classNames) THEN tagName \o <<".">> \o classNames
        ELSE tagName

\* the CSS chain with the placeholder tested before the name
CssOfPlaceholderFirst(e) ==
    LET tagName == ToLowerCase(e.tagName)
        id == e.id
        dataTestId == DataTestIdOf(e)
        placeholder == e.placeholder
        classNames == Join(e.classList, <<".">>)
    IN  IF Truthy(id)
        THEN <<"#">> \o id
        ELSE IF Truthy(dataTestId)
        THEN <<"[data-testid=\"">> \o dataTestId \o <<"\"]">>
        ELSE IF Truthy(getAttribute(e, "data-test-id"))
        THEN <<"[data-test-id=\"">> \o getAttribute(e, "data-test-id") \o <<"\"]">>
        ELSE IF Truthy(placeholder)
        THEN tagName \o <<"[placeholder=\"">> \o placeholder \o <<"\"]">>
        ELSE IF Truthy(e.name)
        THEN tagName \o <<"[name=\"">> \o e.name \o <<"\"]">>
        ELSE IF Truthy(classNames) THEN tagName \o <<".">> \o classNames
        ELSE tagName

\* the CSS chain
CssOf(e) ==
    LET tagName == ToLowerCase(e.tagName)
        id == e.id
        dataTestId == DataTestIdOf(e)
        placeholder == e.placeholder
        classNames == Join(e.classList, <<".">>)
    IN  IF Truthy(id)
        THEN <<"#">> \o id
        ELSE IF Truthy(dataTestId)
        THEN <<"[data-testid=\"">> \o dataTestId \o <<"\"]">>
        ELSE IF Truthy(getAttribute(e, "data-test-id"))
        THEN <<"[data-test-id=\"">> \o getAttribute(e, "data-test-id") \o <<"\"]">>
        ELSE IF Truthy(e.name)
        THEN tagName \o <<"[name=\"">> \o e.name \o <<"\"]">>
        ELSE IF Truthy(placeholder)
        THEN tagName \o <<"[placeholder=\"">> \o placeholder \o <<"\"]">>
        ELSE IF Truthy(classNames) THEN tagName \o <<".">> \o classNames
        ELSE tagName

\* the XPath chain with the placeholder tested before the text
XpathOfPlaceholderFirst(e) ==
    LET tagName == ToLowerCase(e.tagName)
        text == TextOf(e)
        id == e.id
        dataTestId == DataTestIdOf(e)
        placeholder == e.placeholder
    IN  IF Truthy(id)
        THEN <<"//*[@id='">> \o id \o <<"']">>
        ELSE IF Truthy(dataTestId)
        THEN <<"//*[@data-testid='">> \o dataTestId \o <<"']">>
        ELSE IF Truthy(getAttribute(e, "data-test-id"))
        THEN <<"//*[@data-test-id='">> \o getAttribute(e, "data-test-id") \o <<"']">>
        ELSE IF Truthy(placeholder)
        THEN <<"//">> \o tagName \o <<"[@placeholder='">> \o placeholder \o <<"']">>
        ELSE IF Truthy(text) /\ Len(text) > 0
        THEN <<"//">> \o tagName \o <<"[contains(text(), '">> \o escape(text) \o <<"')]">>
        ELSE IF Truthy(e.name)
        THEN <<"//">> \o tagName \o <<"[@name='">> \o e.name \o <<"']">>
        ELSE IF Len(e.classList) > 0
        THEN <<"//">> \o tagName \o <<"[@class='">> \o Join(e.classList, <<" ">>) \o <<"']">>
        ELSE <<"//">> \o tagName

\* the XPath chain; the default is //tagName
XpathOf(e) ==
    LET tagName == ToLowerCase(e.tagName)
        text == TextOf(e)
        id == e.id
        dataTestId == DataTestIdOf(e)
        placeholder == e.placeholder
    IN  IF Truthy(id)
        THEN <<"//*[@id='">> \o id \o <<"']">>
        ELSE IF Truthy(dataTestId)
        THEN <<"//*[@data-testid='">> \o dataTestId \o <<"']">>
        ELSE IF Truthy(getAttribute(e, "data-test-id"))
        THEN <<"//*[@data-test-id='">> \o getAttribute(e, "data-test-id") \o <<"']">>
        ELSE IF Truthy(text) /\ Len(text) > 0
        THEN <<"//">> \o tagName \o <<"[contains(text(), '">> \o escape(text) \o <<"')]">>
        ELSE IF Truthy(placeholder)
        THEN <<"//">> \o tagName \o <<"[@placeholder='">> \o placeholder \o <<"']">>
        ELSE IF Truthy(e.name)
        THEN <<"//">> \o tagName \o <<"[@name='">> \o e.name \o <<"']">>
        ELSE IF Len(e.classList) > 0
        THEN <<"//">> \o tagName \o <<"[@class='">> \o Join(e.classList, <<" ">>) \o <<"']">>
        ELSE <<"//">> \o tagName

\* the outcome of a call: the record returned, or the error raised by
\* getLabelText (line 72) before any chain runs
generateLocators(e, doc) ==
    LET labelText == getLabelText(e, doc)
    IN  IF labelText = THROWN
        THEN [status |-> "threw", error |-> THROWN]
        ELSE [status |-> "returned",
              playwright |-> PlaywrightOf(e, labelText),
              css |-> CssOf(e),
              xpath |-> XpathOf(e)]

---------------------------------------------------------------------------
(* Bounds and the inputs drawn                                             *)

\* longest class list drawn
MaxClasses == 2
\* longest argument of escape drawn
MaxLen == 4

\* el.tagName is upper case for the elements of an HTML document
T_DIV == <<"D", "I", "V">>
T_BUTTON == <<"B", "U", "T", "T", "O", "N">>
T_INPUT == <<"I", "N", "P", "U", "T">>
T_TEXTAREA == <<"T", "E", "X", "T", "A", "R", "E", "A">>
T_SELECT == <<"S", "E", "L", "E", "C", "T">>
T_A == <<"A">>
T_LABEL == <<"L", "A", "B", "E", "L">>
T_Input == <<"I", "n", "p", "u", "t">>
K_div == <<"d", "i", "v">>
K_date == <<"d", "a", "t", "e">>

\* tag name with the value of the type property that tag has
TagTypes ==
    { <<T_DIV, UNDEFINED>>, <<T_BUTTON, K_submit>>, <<T_A, <<>> >>,
      <<T_LABEL, UNDEFINED>>, <<T_INPUT, K_text>>,
      <<T_INPUT, K_checkbox>>, <<T_TEXTAREA, K_textarea>>,
      <<T_SELECT, <<"s", "e", "l", "e", "c", "t", "-", "o", "n", "e">> >> }

\* the text of section 8: O'Brien<newline>Row2
OBrien == <<"O", "'", "B", "r", "i", "e", "n", "\n", "R", "o", "w", "2">>

RoleValues == {NULL, <<"t", "a", "b">>}
InnerTexts == {UNDEFINED, <<>>, <<" ", "H", "i", "\n">>, OBrien}
Ids == {<<>>, <<"a">>, <<"a", "\"">>}
TestIds == {NULL, <<"t">>, <<"t", "'">>}
TestIds2 == {NULL, <<"u">>}
AriaLabels == {NULL, <<"L">>, <<" ">>}
Placeholders == {UNDEFINED, <<"p">>}
Names == {UNDEFINED, <<"n">>}
AllClasses == << <<"c", "a", "r", "d">>, <<"a", "c", "t", "i", "v", "e">>,
                 <<"w", "i", "d", "e">>, <<"x">> >>
ClassLists ==
    {SubSeq(AllClasses, 1, n) :
        n \in 0..(IF MaxClasses < Len(AllClasses) THEN MaxClasses ELSE Len(AllClasses))}
Documents ==
    { <<>>, <<[htmlFor |-> <<"a">>, innerText |-> <<" ", "N", "a", "m", "e">>]>> }
AncestorLists ==
    { <<>>, <<[tagName |-> T_DIV, innerText |-> <<"P", "a", "r">>],
              [tagName |-> T_LABEL, innerText |-> <<"P", "a", "r", " ">>]>> }

Elements ==
    { [tagName |-> tt[1], type |-> tt[2], id |-> id, name |-> nm,
       placeholder |-> ph, innerText |-> it, classList |-> cl, ancestors |-> an,
       attributes |-> ("role" :> r) @@ ("data-testid" :> t1) @@
                      ("data-test-id" :> t2) @@ ("aria-label" :> al)] :
        tt \in TagTypes, id \in Ids, nm \in Names, ph \in Placeholders,
        it \in InnerTexts, cl \in ClassLists, an \in AncestorLists,
        r \in RoleValues, t1 \in TestIds, t2 \in TestIds2, al \in AriaLabels }

\* a <div> that carries nothing but its text
TextElement(text) ==
    [tagName |-> T_DIV, type |-> UNDEFINED, id |-> <<>>, name |-> UNDEFINED,
     placeholder |-> UNDEFINED, innerText |-> text, classList |-> <<>>,
     ancestors |-> <<>>,
     attributes |-> ("role" :> NULL) @@ ("data-testid" :> NULL) @@
                    ("data-test-id" :> NULL) @@ ("aria-label" :> NULL)]

EscChars == {"a", "'", "\n", " ", "\\", "\t"}

RECURSIVE StringsUpTo(_, _)
StringsUpTo(chars, n) ==
    IF n = 0 THEN {<<>>}
    ELSE LET shorter == StringsUpTo(chars, n - 1)
         IN  shorter \cup {Append(s, c) : s \in shorter, c \in chars}

InferTags ==
    { K_button, K_a, K_img, K_input, K_select, K_textarea,
      K_h1, K_h2, K_h3, K_h4, K_h5, K_h6,
      K_div, K_label, K_constructor, T_INPUT, T_Input, T_BUTTON, T_DIV }
InferTypes ==
    { UNDEFINED, <<>>, K_button, K_submit, K_checkbox, K_radio, K_text,
      K_email, K_password, K_search, K_number, K_date, K_constructor }

NotCalled == [status |-> "pending"]

---------------------------------------------------------------------------
(* Actions                                                                 *)

\* one call LocatorGenerator.generateLocators(el)
GenerateLocators ==
    /\ locators = NotCalled
    /\ locators' = generateLocators(el, labels)
    /\ UNCHANGED <<el, labels, str, escaped, tagArg, typeArg, inferred, gotLabelText,
                   recVars, agentVars>>

\* one call LocatorGenerator.escape(str)
Escape ==
    /\ escaped = PENDING
    /\ escaped' = escape(str)
    /\ UNCHANGED <<el, labels, locators, str, tagArg, typeArg, inferred, gotLabelText,
                   recVars, agentVars>>

\* one call LocatorGenerator.inferRole(tagArg, typeArg)
InferRole ==
    /\ inferred = PENDING
    /\ inferred' = inferRole(tagArg, typeArg)
    /\ UNCHANGED <<el, labels, locators, str, escaped, tagArg, typeArg, gotLabelText,
                   recVars, agentVars>>

\* one call LocatorGenerator.getLabelText(el)
GetLabelText ==
    /\ gotLabelText = PENDING
    /\ gotLabelText' = getLabelText(el, labels)
    /\ UNCHANGED <<el, labels, locators, str, escaped, tagArg, typeArg, inferred,
                   recVars, agentVars>>

---------------------------------------------------------------------------
(* The recorder: side panel (src/unnamed/part_003), background worker      *)
(* (src/src/background/main.ts) and content scripts                        *)
(* (src/src/content/index.ts).  A message is a record; a queue holds the   *)
(* messages sent and not yet handled.  The step list the side panel shows  *)
(* (UPDATE_STEPS) is outside the model.                                    *)

TabIds == {1, 2}
\* tabs[0] is undefined; also sender.tab of a page of the extension
NoTab == 0

NoStep == [type |-> "none"]

Msg(type, tab, req, step) ==
    [type |-> type, tab |-> tab, req |-> req, step |-> step]

\* the queue q without its i-th message
RemoveAt(q, i) == SubSeq(q, 1, i - 1) \o SubSeq(q, i + 1, Len(q))

\* messages of one sender arrive in the order sent; messages of different
\* senders arrive in any order
Deliverable(q, i) ==
    /\ i \in 1..Len(q)
    /\ \A j \in 1..(i - 1) : q[j].tab # q[i].tab

\* String.prototype.includes
Includes(s, sub) ==
    \E i \in 1..(Len(s) + 1) :
        /\ i + Len(sub) - 1 <= Len(s)
        /\ SubSeq(s, i, i + Len(sub) - 1) = sub

S_cart_items ==
    <<"c", "a", "r", "t", "_", "i", "t", "e", "m", "s">>
S_object_Object ==
    <<"[", "o", "b", "j", "e", "c", "t", " ", "O", "b", "j", "e", "c", "t",
    "]">>
S_context_invalidated ==
    <<"E", "x", "t", "e", "n", "s", "i", "o", "n", " ", "c", "o", "n", "t",
    "e", "x", "t", " ", "i", "n", "v", "a", "l", "i", "d", "a", "t", "e",
    "d">>

\* printLog(message, level): the log message sent
printLog(message, level) ==
    [type |-> "log", log |-> message,
     level |-> Or(level, <<"info">>)]

NoLogs == [n |-> 0, last |-> NULL]

\* the log after printLog has sent the message m
Logged(l, m) == [n |-> l.n + 1, last |-> m]

\* the log after printLog has sent the messages ms, in order
LoggedAll(l, ms) ==
    IF ms = <<>> THEN l ELSE [n |-> l.n + Len(ms), last |-> ms[Len(ms)]]

\* the logs the debugger.onEvent listener prints for one event, with the
\* filter read as "noisy" whatever the text
PageErrorLogsNoFilter(isRec, method, level, text) ==
    IF ~isRec THEN <<>>
    ELSE IF method # "Console.messageAdded" THEN <<>>
    ELSE IF level # "error" THEN <<>>
    ELSE <<printLog(<<"Page Error: ">> \o Or(text, <<>>), <<"error">>)>>

\* the logs the debugger.onEvent listener prints for one event
PageErrorLogs(isRec, method, level, text) ==
    IF ~isRec THEN <<>>
    ELSE IF method # "Console.messageAdded" THEN <<>>
    ELSE IF level # "error" THEN <<>>
    ELSE LET t == Or(text, <<>>)
             isNoisyError ==
                 \/ Includes(t, S_cart_items)
                 \/ Includes(t, S_object_Object)
                 \/ Includes(t, S_context_invalidated)
         IN  IF ~isNoisyError
             THEN <<printLog(<<"Page Error: ">> \o t, <<"error">>)>>
             ELSE <<>>

\* recordedSteps after a RECORDED_STEP message, pushing whatever the flag
PushStepAlways(isRec, steps, step) == Append(steps, step)

\* recordedSteps after a RECORDED_STEP message
PushStep(isRec, steps, step) ==
    IF isRec THEN Append(steps, step) ELSE steps

\* the steps received while recording since the last START_RECORDING, after
\* the background has received the message m
SessionAfter(s, m, isRec) ==
    IF m.type = "START_RECORDING" THEN <<>>
    ELSE IF m.type = "RECORDED_STEP" /\ isRec THEN Append(s, m.step)
    ELSE s

\* bounds of the recorder
MaxToggles == 2
MaxEvents == 1
MaxCdpEvents == 1

\* the nodes DOM events are dispatched on: two elements, one of them with an
\* id no selector can hold, and the document, which has no tagName
DocumentNode == [tagName |-> UNDEFINED]
EventTargets ==
    { [node |-> TextElement(<<"H", "i">>), value |-> UNDEFINED],
      [node |-> [TextElement(<<>>) EXCEPT !.tagName = T_INPUT,
                                          !.id = <<"a", "\"">>],
       value |-> <<"v">>],
      [node |-> DocumentNode, value |-> UNDEFINED] }
EventTypes == {"click", "input", "change"}

\* window.location.href and document.title of a tab
Href(t) == <<"https://example.test/", ToString(t)>>
Title(t) == <<"Page ", ToString(t)>>

\* the step handleEvent builds (index.ts 14-20)
EventStep(type, target, locs, now) ==
    [type |-> type,
     locators |-> locs,
     value |-> target.value,
     timestamp |-> now,
     tagName |-> target.node.tagName,
     innerText |-> Substring0(target.node.innerText, TextLimit)]

\* the step sent when recording starts on a page (index.ts 37-47)
NavigateStep(t, now) ==
    [type |-> "navigate",
     locators |-> [status |-> "returned", playwright |-> <<>>,
                   css |-> <<>>, xpath |-> <<>>],
     value |-> Href(t),
     timestamp |-> now,
     tagName |-> <<"P", "A", "G", "E">>,
     innerText |-> Title(t)]

NoCdpEvent == [n |-> 0, method |-> "none", level |-> "none",
               text |-> UNDEFINED]
NoEvent == [tab |-> NoTab, element |-> FALSE, located |-> FALSE,
            timestamp |-> 0]

NewRequest(type) ==
    [type |-> type, answer |-> "none", tab |-> NoTab, attach |-> "none",
     contentStart |-> {}]

\* the recorder before the side panel's first request is handled
RecorderInit ==
    /\ sbIsRecording = FALSE
    /\ bgIsRecording = FALSE
    /\ recordedSteps = <<>>
    /\ csIsRecording = [t \in TabIds |-> FALSE]
    /\ activeTab \in TabIds \cup {NoTab}
    /\ attached = {}
    /\ toBackground = <<Msg("GET_RECORDED_STEPS", NoTab, 0, NoStep)>>
    /\ toContent = [t \in TabIds |-> <<>>]
    /\ toSidebar = <<>>
    /\ pending = {}
    /\ requests = <<>>
    /\ logs = NoLogs
    /\ clock = 0
    /\ lastEvent = NoEvent
    /\ cdpEvent = NoCdpEvent
    /\ session = <<>>

\* the recorder in the specifications of the locator generator alone
RecorderIdle ==
    /\ sbIsRecording = FALSE
    /\ bgIsRecording = FALSE
    /\ recordedSteps = <<>>
    /\ csIsRecording = [t \in TabIds |-> FALSE]
    /\ activeTab = NoTab
    /\ attached = {}
    /\ toBackground = <<>>
    /\ toContent = [t \in TabIds |-> <<>>]
    /\ toSidebar = <<>>
    /\ pending = {}
    /\ requests = <<>>
    /\ logs = NoLogs
    /\ clock = 0
    /\ lastEvent = NoEvent
    /\ cdpEvent = NoCdpEvent
    /\ session = <<>>

---------------------------------------------------------------------------
(* Recorder actions                                                        *)

\* side panel: toggleRecording (part_003 173-186)
ToggleRecording ==
    /\ Len(requests) < MaxToggles
    /\ LET r == Len(requests) + 1
       IN  IF sbIsRecording
           THEN /\ toBackground' =
                       Append(toBackground, Msg("STOP_RECORDING", NoTab, r, NoStep))
                /\ requests' = Append(requests, NewRequest("STOP_RECORDING"))
                /\ UNCHANGED sbIsRecording
           ELSE /\ sbIsRecording' = TRUE
                /\ toBackground' =
                       Append(toBackground, Msg("START_RECORDING", NoTab, r, NoStep))
                /\ requests' = Append(requests, NewRequest("START_RECORDING"))
    /\ UNCHANGED <<bgIsRecording, recordedSteps, csIsRecording, activeTab,
                   attached, toContent, toSidebar, pending, logs, clock,
                   lastEvent, cdpEvent, session, locVars, agentVars>>

\* side panel: the callbacks of GET_RECORDED_STEPS (part_003 61-66) and of
\* STOP_RECORDING (part_003 175-180); its listener has no case for a
\* STOP_RECORDING broadcast
SidebarReceive ==
    /\ toSidebar # <<>>
    /\ LET m == Head(toSidebar)
       IN  sbIsRecording' =
               IF m.type = "GET_RECORDED_STEPS response" THEN m.isRecording
               ELSE IF m.type = "STOP_RECORDING response" THEN FALSE
               ELSE sbIsRecording
    /\ toSidebar' = Tail(toSidebar)
    /\ UNCHANGED <<bgIsRecording, recordedSteps, csIsRecording, activeTab,
                   attached, toBackground, toContent, pending, requests, logs,
                   clock, lastEvent, cdpEvent, session, locVars, agentVars>>

\* the user activates another tab, or leaves the window without one
SwitchTab(t) ==
    /\ t # activeTab
    /\ activeTab' = t
    /\ UNCHANGED <<sbIsRecording, bgIsRecording, recordedSteps, csIsRecording,
                   attached, toBackground, toContent, toSidebar, pending,
                   requests, logs, clock, lastEvent, cdpEvent, session,
                   locVars, agentVars>>

\* the page of tab t is replaced (a navigation): its content script starts
\* anew with isRecording = false (index.ts 4) and asks the background for the
\* recording state (index.ts 63-94).  One check per tab is in flight at most.
PageLoad(t) ==
    /\ \A i \in 1..Len(toBackground) :
          ~(toBackground[i].type = "CHECK_RECORDING_STATE"
            /\ toBackground[i].tab = t)
    /\ \A i \in 1..Len(toContent[t]) :
          toContent[t][i].type # "CHECK_RECORDING_STATE response"
    /\ csIsRecording' = [csIsRecording EXCEPT ![t] = FALSE]
    /\ toBackground' =
           Append(toBackground, Msg("CHECK_RECORDING_STATE", t, 0, NoStep))
    /\ UNCHANGED <<sbIsRecording, bgIsRecording, recordedSteps, activeTab,
                   attached, toContent, toSidebar, pending, requests, logs,
                   clock, lastEvent, cdpEvent, session, locVars, agentVars>>

\* content script of tab t: handleEvent on one click, input or change event
\* (index.ts 6-29, 118-120).  sendOk is false when chrome.runtime.sendMessage
\* throws because the extension context is gone.
HandleEvent(t, type, target, sendOk) ==
    /\ clock < MaxEvents
    /\ clock' = clock + 1
    /\ LET recording == csIsRecording[t]
           hasTag == Truthy(target.node.tagName)
           runs == recording /\ hasTag
           locs == IF runs THEN generateLocators(target.node, <<>>)
                   ELSE NotCalled
           built == runs /\ locs.status = "returned"
       IN  /\ lastEvent' = [tab |-> t, element |-> hasTag, located |-> runs,
                            timestamp |-> clock']
           /\ toBackground' =
                  IF built /\ sendOk
                  THEN Append(toBackground,
                              Msg("RECORDED_STEP", t, 0,
                                  EventStep(type, target, locs, clock')))
                  ELSE toBackground
           /\ csIsRecording' =
                  IF built /\ ~sendOk
                  THEN [csIsRecording EXCEPT ![t] = FALSE]
                  ELSE csIsRecording
    /\ UNCHANGED <<sbIsRecording, bgIsRecording, recordedSteps, activeTab,
                   attached, toContent, toSidebar, pending, requests, logs,
                   cdpEvent, session, locVars, agentVars>>

\* what the callback of CHECK_RECORDING_STATE is called with when no listener
\* has answered: no response, and chrome.runtime.lastError set
NoAnswer ==
    [type |-> "CHECK_RECORDING_STATE response", tab |-> NoTab,
     lastError |-> TRUE, response |-> UNDEFINED]

\* content script of tab t: the runtime.onMessage listener (index.ts 31-61)
\* and the callback of CHECK_RECORDING_STATE (index.ts 65-90)
ContentReceive(t) ==
    /\ toContent[t] # <<>>
    /\ LET m == Head(toContent[t])
       IN  CASE m.type = "START_RECORDING" ->
                /\ csIsRecording' = [csIsRecording EXCEPT ![t] = TRUE]
                /\ toBackground' =
                       Append(toBackground,
                              Msg("RECORDED_STEP", t, 0, NavigateStep(t, clock)))
             [] m.type = "STOP_RECORDING" ->
                /\ csIsRecording' = [csIsRecording EXCEPT ![t] = FALSE]
                /\ UNCHANGED toBackground
             [] m.type = "CHECK_RECORDING_STATE response" ->
                IF m.lastError THEN UNCHANGED <<csIsRecording, toBackground>>
                ELSE IF m.response # UNDEFINED /\ m.response.isRecording
                THEN /\ csIsRecording' = [csIsRecording EXCEPT ![t] = TRUE]
                     /\ toBackground' =
                            Append(toBackground,
                                   Msg("RECORDED_STEP", t, 0,
                                       NavigateStep(t, clock)))
                ELSE UNCHANGED <<csIsRecording, toBackground>>
    /\ toContent' = [toContent EXCEPT ![t] = Tail(toContent[t])]
    /\ UNCHANGED <<sbIsRecording, bgIsRecording, recordedSteps, activeTab,
                   attached, toSidebar, pending, requests, logs, clock,
                   lastEvent, cdpEvent, session, locVars, agentVars>>

\* the answer sendResponse gives to request r
Answer(r, answer) == [requests EXCEPT ![r].answer = answer]

\* background: the runtime.onMessage listener on the i-th message in flight
\* (main.ts 428-503), up to the point where it returns.  The listener has no
\* branch for CHECK_RECORDING_STATE, nor has the listener of
\* background/index.ts or the side panel's: the sender's callback runs with
\* no response.
BackgroundReceive(i) ==
    /\ Deliverable(toBackground, i)
    /\ LET m == toBackground[i]
       IN  /\ toBackground' = RemoveAt(toBackground, i)
           /\ session' = SessionAfter(session, m, bgIsRecording)
           /\ CASE m.type = "START_RECORDING" ->
                     /\ bgIsRecording' = TRUE
                     /\ recordedSteps' = <<>>
                     /\ pending' = pending \cup
                            {[call |-> "tabs.query", req |-> m.req, tab |-> NoTab]}
                     /\ logs' = Logged(logs,
                            printLog(<<"Recording started...">>, <<"info">>))
                     /\ UNCHANGED toSidebar
                [] m.type = "STOP_RECORDING" ->
                     /\ bgIsRecording' = FALSE
                     /\ pending' = pending \cup
                            {[call |-> "tabs.query", req |-> m.req, tab |-> NoTab]}
                     /\ logs' = Logged(logs,
                            printLog(<<"Recording stopped. Captured ",
                                       ToString(Len(recordedSteps)),
                                       " steps.">>, <<"success">>))
                     /\ UNCHANGED <<recordedSteps, toSidebar>>
                [] m.type = "RECORDED_STEP" ->
                     /\ recordedSteps' =
                            PushStep(bgIsRecording, recordedSteps, m.step)
                     /\ UNCHANGED <<bgIsRecording, pending, logs, toSidebar>>
                [] m.type = "GET_RECORDED_STEPS" ->
                     /\ toSidebar' = Append(toSidebar,
                            [type |-> "GET_RECORDED_STEPS response",
                             steps |-> recordedSteps,
                             isRecording |-> bgIsRecording])
                     /\ UNCHANGED <<bgIsRecording, recordedSteps, pending, logs>>
                [] m.type = "CHECK_RECORDING_STATE" ->
                     UNCHANGED <<bgIsRecording, recordedSteps, pending, logs,
                                 toSidebar>>
           /\ toContent' =
                  IF m.type = "CHECK_RECORDING_STATE"
                  THEN [toContent EXCEPT ![m.tab] = Append(@, NoAnswer)]
                  ELSE toContent
    /\ UNCHANGED <<sbIsRecording, csIsRecording, activeTab, attached,
                   requests, clock, lastEvent, cdpEvent, locVars, agentVars>>

\* background: the callback of chrome.tabs.query (main.ts 433-435, 456-459
\* for START_RECORDING; 466-468, 476-483 for STOP_RECORDING)
TabsQueryCallback(p) ==
    /\ p \in pending
    /\ p.call = "tabs.query"
    /\ IF requests[p.req].type = "START_RECORDING"
       THEN IF activeTab # NoTab
            THEN /\ pending' = (pending \ {p}) \cup
                        {[call |-> "debugger.attach", req |-> p.req,
                          tab |-> activeTab]}
                 /\ requests' = [requests EXCEPT ![p.req].tab = activeTab]
                 /\ UNCHANGED <<toContent, toSidebar>>
            ELSE /\ pending' = pending \ {p}
                 /\ requests' = Answer(p.req, "No active tab")
                 /\ UNCHANGED <<toContent, toSidebar>>
       ELSE IF activeTab # NoTab
            THEN /\ pending' = (pending \ {p}) \cup
                        {[call |-> "debugger.detach", req |-> p.req,
                          tab |-> activeTab]}
                 /\ requests' = [requests EXCEPT ![p.req].tab = activeTab]
                 /\ toContent' = [toContent EXCEPT ![activeTab] =
                        Append(@, Msg("STOP_RECORDING", NoTab, p.req, NoStep))]
                 /\ UNCHANGED toSidebar
            ELSE /\ pending' = pending \ {p}
                 /\ requests' = Answer(p.req, "steps")
                 /\ toSidebar' = Append(toSidebar,
                        [type |-> "STOP_RECORDING response", req |-> p.req,
                         steps |-> recordedSteps])
                 /\ UNCHANGED toContent
    /\ UNCHANGED <<sbIsRecording, bgIsRecording, recordedSteps, csIsRecording,
                   activeTab, attached, toBackground, logs, clock, lastEvent,
                   cdpEvent, session, locVars, agentVars>>

\* background: the callback of chrome.debugger.attach, sending START_RECORDING
\* to the content script whatever the outcome
AttachCallbackAlwaysStarts(p, ok) ==
    /\ p \in pending
    /\ p.call = "debugger.attach"
    /\ pending' = pending \ {p}
    /\ toContent' = [toContent EXCEPT ![p.tab] =
           Append(@, Msg("START_RECORDING", NoTab, p.req, NoStep))]
    /\ IF ok /\ p.tab \notin attached
       THEN /\ attached' = attached \cup {p.tab}
            /\ logs' = Logged(logs,
                   printLog(<<"CDP Session started for tab ", ToString(p.tab)>>,
                            <<"info">>))
            /\ requests' = [requests EXCEPT
                   ![p.req].attach = "succeeded",
                   ![p.req].contentStart = @ \cup {p.tab},
                   ![p.req].answer = "success"]
            /\ UNCHANGED bgIsRecording
       ELSE /\ logs' = Logged(logs,
                   printLog(<<"Wait! Cannot record on this page">>, <<"error">>))
            /\ bgIsRecording' = FALSE
            /\ requests' = [requests EXCEPT
                   ![p.req].attach = "failed",
                   ![p.req].contentStart = @ \cup {p.tab},
                   ![p.req].answer = "attach failed"]
            /\ UNCHANGED attached
    /\ UNCHANGED <<sbIsRecording, recordedSteps, csIsRecording, activeTab,
                   toBackground, toSidebar, clock, lastEvent, cdpEvent,
                   session, locVars, agentVars>>

\* background: the callback of chrome.debugger.attach (main.ts 436-455).
\* The attach fails on a tab the debugger is already attached to, and may
\* fail on any tab (a restricted page, another debugger).
AttachCallback(p, ok) ==
    /\ p \in pending
    /\ p.call = "debugger.attach"
    /\ pending' = pending \ {p}
    /\ IF ok /\ p.tab \notin attached
       THEN /\ attached' = attached \cup {p.tab}
            /\ logs' = Logged(logs,
                   printLog(<<"CDP Session started for tab ", ToString(p.tab)>>,
                            <<"info">>))
            /\ toContent' = [toContent EXCEPT ![p.tab] =
                   Append(@, Msg("START_RECORDING", NoTab, p.req, NoStep))]
            /\ requests' = [requests EXCEPT
                   ![p.req].attach = "succeeded",
                   ![p.req].contentStart = @ \cup {p.tab},
                   ![p.req].answer = "success"]
            /\ UNCHANGED bgIsRecording
       ELSE /\ logs' = Logged(logs,
                   printLog(<<"Wait! Cannot record on this page">>, <<"error">>))
            /\ bgIsRecording' = FALSE
            /\ requests' = [requests EXCEPT
                   ![p.req].attach = "failed",
                   ![p.req].answer = "attach failed"]
            /\ UNCHANGED <<attached, toContent>>
    /\ UNCHANGED <<sbIsRecording, recordedSteps, csIsRecording, activeTab,
                   toBackground, toSidebar, clock, lastEvent, cdpEvent,
                   session, locVars, agentVars>>

\* background: the callback of chrome.debugger.detach (main.ts 469-475)
DetachCallback(p) ==
    /\ p \in pending
    /\ p.call = "debugger.detach"
    /\ pending' = pending \ {p}
    /\ attached' = attached \ {p.tab}
    /\ logs' = Logged(logs, printLog(<<"CDP Session finished.">>, <<"info">>))
    /\ toSidebar' = Append(toSidebar,
           [type |-> "STOP_RECORDING response", req |-> p.req,
            steps |-> recordedSteps])
    /\ requests' = Answer(p.req, "steps")
    /\ UNCHANGED <<sbIsRecording, bgIsRecording, recordedSteps, csIsRecording,
                   activeTab, toBackground, toContent, clock, lastEvent,
                   cdpEvent, session, locVars, agentVars>>

\* background: the debugger.onEvent listener on one event of an attached tab
\* (main.ts 505-524)
DebuggerEvent(t, method, level, text) ==
    /\ t \in attached
    /\ cdpEvent.n < MaxCdpEvents
    /\ cdpEvent' = [n |-> cdpEvent.n + 1, method |-> method, level |-> level,
                    text |-> text]
    /\ logs' = LoggedAll(logs, PageErrorLogs(bgIsRecording, method, level, text))
    /\ UNCHANGED <<sbIsRecording, bgIsRecording, recordedSteps, csIsRecording,
                   activeTab, attached, toBackground, toContent, toSidebar,
                   pending, requests, clock, lastEvent, session, locVars, agentVars>>

\* background: the debugger.onDetach listener, when the browser ends the
\* debugging session of tab t (main.ts 526-536)
DebuggerDetached(t) ==
    /\ t \in attached
    /\ attached' = attached \ {t}
    /\ IF bgIsRecording
       THEN /\ logs' = Logged(logs,
                   printLog(<<"Debugger detached: ", "target_closed">>, <<"error">>))
            /\ bgIsRecording' = FALSE
            /\ toSidebar' = Append(toSidebar, [type |-> "STOP_RECORDING"])
       ELSE UNCHANGED <<logs, bgIsRecording, toSidebar>>
    /\ UNCHANGED <<sbIsRecording, recordedSteps, csIsRecording, activeTab,
                   toBackground, toContent, pending, requests, clock,
                   lastEvent, cdpEvent, session, locVars, agentVars>>

---------------------------------------------------------------------------
(* The agent runner: the Run/Stop button of the side panel                 *)
(* (src/unnamed/part_003), the 'run' and 'stop' handlers of                *)
(* src/src/background/index.ts and main / initializeEko of                 *)
(* src/src/background/main.ts.  A run is named by its place in agentRuns;  *)
(* the log lines the handlers print are outside the model.                 *)

MaxRuns == 2

\* var eko: Eko  before any assignment, and after  eko = null
NoRun == 0

\* where the prompt of the side panel is drawn from
Prompts == {<<>>, <<" ">>, <<"g", "o">>}

\* what initializeEko does with the configuration it reads
InitializeOutcomes ==
    {"no api key", "no base url or model", "create failed", "created"}

\* a run has ended when main returned no agent or its task has settled
EndedPhases == {"returned null", "create failed", "settled"}

NewRun(prompt) ==
    [phase |-> "requested", prompt |-> prompt, stopSent |-> FALSE,
     stopped |-> FALSE]

\* index.ts sets running to false in the storage when the worker starts
AgentInit ==
    /\ sbRunning = FALSE
    /\ storageRunning = FALSE
    /\ eko = NoRun
    /\ agentRuns = <<>>
    /\ agentMsgs = <<>>
    /\ stopMsgs = 0
    /\ manual = <<>>

\* handleRunClick
HandleRunClick(prompt) ==
    /\ IF sbRunning
         THEN /\ sbRunning' = FALSE
              /\ storageRunning' = FALSE
              /\ agentMsgs' = Append(agentMsgs, [type |-> "stop", run |-> NoRun])
              /\ UNCHANGED agentRuns
         ELSE IF Trim(prompt) = <<>>
           THEN UNCHANGED <<sbRunning, storageRunning, agentMsgs, agentRuns>>
           ELSE /\ Len(agentRuns) < MaxRuns
                /\ sbRunning' = TRUE
                /\ storageRunning' = TRUE
                /\ agentRuns' = Append(agentRuns, NewRun(Trim(prompt)))
                /\ agentMsgs' = Append(agentMsgs,
                                  [type |-> "run", run |-> Len(agentRuns) + 1])
    /\ UNCHANGED <<eko, stopMsgs, manual, locVars, recVars>>

\* the side panel's listener on a 'stop' message
SidebarStop ==
    /\ stopMsgs > 0
    /\ stopMsgs' = stopMsgs - 1
    /\ sbRunning' = FALSE
    /\ storageRunning' = FALSE
    /\ UNCHANGED <<eko, agentRuns, agentMsgs, manual, locVars, recVars>>

\* the 'run' handler up to the first await of main: initializeEko is reading
\* the configuration
RunReceive ==
    /\ agentMsgs # <<>>
    /\ Head(agentMsgs).type = "run"
    /\ agentMsgs' = Tail(agentMsgs)
    /\ agentRuns' = [agentRuns EXCEPT
                       ![Head(agentMsgs).run].phase = "initializing"]
    /\ UNCHANGED <<sbRunning, storageRunning, eko, stopMsgs, manual, locVars,
                   recVars>>

\* eko && eko.getAllTaskId().forEach(abortTask): the tasks of the agent
\* that eko holds
AbortTasks(rs, e) ==
    IF e # NoRun /\ rs[e].phase = "running"
      THEN [rs EXCEPT ![e].phase = "aborted"]
      ELSE rs

\* the 'stop' handler; stopped marks the runs received before this stop
StopReceive ==
    /\ agentMsgs # <<>>
    /\ Head(agentMsgs).type = "stop"
    /\ agentMsgs' = Tail(agentMsgs)
    /\ agentRuns' = [i \in DOMAIN agentRuns |->
                      IF agentRuns[i].phase = "requested"
                        THEN agentRuns[i]
                        ELSE [AbortTasks(agentRuns, eko)[i]
                                EXCEPT !.stopped = TRUE]]
    /\ UNCHANGED <<sbRunning, storageRunning, eko, stopMsgs, manual, locVars,
                   recVars>>

\* the rest of main once the configuration is read: initializeEko returns
\* null or the agent, main starts eko.run without awaiting it, and the
\* handler assigns what main returned to eko
MainReturns(i, outcome) ==
    /\ i \in DOMAIN agentRuns
    /\ agentRuns[i].phase = "initializing"
    /\ CASE outcome = "created" ->
              /\ agentRuns' = [agentRuns EXCEPT ![i].phase = "running"]
              /\ eko' = i
              /\ UNCHANGED <<storageRunning, stopMsgs>>
         [] outcome = "create failed" ->
              /\ agentRuns' = [agentRuns EXCEPT ![i].phase = "create failed",
                                                ![i].stopSent = TRUE]
              /\ eko' = NoRun
              /\ storageRunning' = FALSE
              /\ stopMsgs' = stopMsgs + 1
         [] OTHER ->
              /\ agentRuns' = [agentRuns EXCEPT ![i].phase = "returned null"]
              /\ eko' = NoRun
              /\ UNCHANGED <<storageRunning, stopMsgs>>
    /\ UNCHANGED <<sbRunning, agentMsgs, manual, locVars, recVars>>

\* the promise of eko.run settles (fulfilled, rejected, or rejected by
\* abortTask): the finally of main
RunSettles(i) ==
    /\ i \in DOMAIN agentRuns
    /\ agentRuns[i].phase \in {"running", "aborted"}
    /\ agentRuns' = [agentRuns EXCEPT ![i].phase = "settled",
                                      ![i].stopSent = TRUE]
    /\ storageRunning' = FALSE
    /\ stopMsgs' = stopMsgs + 1
    /\ UNCHANGED <<sbRunning, eko, agentMsgs, manual, locVars, recVars>>

---------------------------------------------------------------------------
(* The manual test case generator: handleGenerateManual of the side panel  *)
(* (src/unnamed/part_003), the GENERATE_MANUAL_TESTCASE handler of         *)
(* src/src/background/index.ts and generateManualTestCases / callLLM of    *)
(* src/src/background/main.ts.  A request is named by its place in manual; *)
(* sent lists the MANUAL_TESTCASE_GENERATED messages its handler sent.     *)

MaxManual == 2

E_no_tab == <<"No active tab found">>
E_restricted ==
    <<"Cannot capture context on this type of page. Please try on a regular website.">>
E_inject == <<"Cannot access contents of the page">>
E_timeout == <<"Content script communication timeout">>
E_lastError == <<"chrome.runtime.lastError.message">>
E_invalid == <<"Invalid response from content script">>
E_not_configured == <<"LLM not configured">>
E_llm_api == <<"LLM API Error">>
S_failed_to_generate == <<"Failed to generate test cases.">>

\* what chrome.tabs.query gives the handler
TabResults == {"no tab", "restricted", "ok"}

\* PING is answered, or it fails and executeScript works or throws
PingResults == {"answered", "injected", "inject failed"}

\* what the callback of GET_PAGE_CONTEXT is called with
ContextReplies == {"lastError", "context", "invalid"}

\* generateManualTestCases: no key, a response that is not ok, content
\* (data.choices?.[0]?.message?.content), or no content
LlmResults == {"not configured", "api error", "content", "no content"}

\* the content the model's reply holds
LlmContent == <<"[", "]">>

NewManual ==
    [phase |-> "sent", context |-> "none", reply |-> FALSE, sent |-> <<>>]

\* the catch at the end of the handler
ManualFailed(r, errorMsg) ==
    [r EXCEPT !.phase = "done",
              !.sent = Append(@, [testcases |-> UNDEFINED,
                                  error |-> errorMsg])]

\* the end of the try block
ManualGenerated(r, testcases) ==
    [r EXCEPT !.phase = "done",
              !.sent = Append(@, [testcases |-> testcases,
                                  error |-> UNDEFINED])]

\* the handler goes on from its await once the promise is resolved or
\* rejected
ContextSettled(r, res) ==
    CASE res = "context" -> [r EXCEPT !.context = "resolved", !.phase = "llm"]
      [] res = "lastError" ->
           ManualFailed([r EXCEPT !.context = "rejected"], E_lastError)
      [] res = "invalid" ->
           ManualFailed([r EXCEPT !.context = "rejected"], E_invalid)
      [] res = "timeout" ->
           ManualFailed([r EXCEPT !.context = "rejected"], E_timeout)

\* the variant in which a settled promise is settled again
SettleContextAgain(r, res) == ContextSettled(r, res)

\* resolve and reject act on a pending promise only
SettleContext(r, res) ==
    IF r.context = "pending" THEN ContextSettled(r, res) ELSE r

\* handleGenerateManual
HandleGenerateManual ==
    /\ Len(manual) < MaxManual
    /\ manual' = Append(manual, NewManual)
    /\ UNCHANGED <<sbRunning, storageRunning, eko, agentRuns, agentMsgs,
                   stopMsgs, locVars, recVars>>

\* the handler up to  await chrome.tabs.query
ManualReceive(i) ==
    /\ i \in DOMAIN manual
    /\ manual[i].phase = "sent"
    /\ \A j \in 1..(i - 1) : manual[j].phase # "sent"
    /\ manual' = [manual EXCEPT ![i].phase = "query"]
    /\ UNCHANGED <<sbRunning, storageRunning, eko, agentRuns, agentMsgs,
                   stopMsgs, locVars, recVars>>

\* from the result of tabs.query to  await chrome.tabs.sendMessage(PING)
TabsQueried(i, tab) ==
    /\ i \in DOMAIN manual
    /\ manual[i].phase = "query"
    /\ manual' = [manual EXCEPT ![i] =
                    CASE tab = "no tab" -> ManualFailed(@, E_no_tab)
                      [] tab = "restricted" -> ManualFailed(@, E_restricted)
                      [] OTHER -> [@ EXCEPT !.phase = "ping"]]
    /\ UNCHANGED <<sbRunning, storageRunning, eko, agentRuns, agentMsgs,
                   stopMsgs, locVars, recVars>>

\* from the answer to PING (or the injection) to the await of the promise
\* that holds the timer and the GET_PAGE_CONTEXT request
PingDone(i, ping) ==
    /\ i \in DOMAIN manual
    /\ manual[i].phase = "ping"
    /\ manual' = [manual EXCEPT ![i] =
                    IF ping = "inject failed"
                      THEN ManualFailed(@, E_inject)
                      ELSE [@ EXCEPT !.phase = "context",
                                     !.context = "pending",
                                     !.reply = TRUE]]
    /\ UNCHANGED <<sbRunning, storageRunning, eko, agentRuns, agentMsgs,
                   stopMsgs, locVars, recVars>>

\* the timer of 10 s fires: it was not cleared, so no reply has come
ContextTimeout(i) ==
    /\ i \in DOMAIN manual
    /\ manual[i].context = "pending"
    /\ manual[i].reply
    /\ manual' = [manual EXCEPT ![i] = SettleContext(@, "timeout")]
    /\ UNCHANGED <<sbRunning, storageRunning, eko, agentRuns, agentMsgs,
                   stopMsgs, locVars, recVars>>

\* the callback of GET_PAGE_CONTEXT, before or after the timer
ContextReply(i, res) ==
    /\ i \in DOMAIN manual
    /\ manual[i].reply
    /\ manual' = [manual EXCEPT ![i] =
                    SettleContext([@ EXCEPT !.reply = FALSE], res)]
    /\ UNCHANGED <<sbRunning, storageRunning, eko, agentRuns, agentMsgs,
                   stopMsgs, locVars, recVars>>

\* generateManualTestCases returns or throws
LlmDone(i, llm) ==
    /\ i \in DOMAIN manual
    /\ manual[i].phase = "llm"
    /\ manual' = [manual EXCEPT ![i] =
                    CASE llm = "not configured" ->
                           ManualFailed(@, E_not_configured)
                      [] llm = "api error" -> ManualFailed(@, E_llm_api)
                      [] llm = "content" -> ManualGenerated(@, LlmContent)
                      [] OTHER -> ManualGenerated(@, S_failed_to_generate)]
    /\ UNCHANGED <<sbRunning, storageRunning, eko, agentRuns, agentMsgs,
                   stopMsgs, locVars, recVars>>

---------------------------------------------------------------------------
(* Specifications                                                          *)

\* generateLocators on every element and document drawn
Init ==
    /\ el \in Elements
    /\ labels \in Documents
    /\ locators = NotCalled
    /\ str = <<>>
    /\ escaped = <<>>
    /\ tagArg = K_div
    /\ typeArg = UNDEFINED
    /\ inferred = NULL
    /\ gotLabelText = NULL
    /\ RecorderIdle
    /\ AgentInit

Next == GenerateLocators

Spec == Init /\ [][Next]_vars

\* escape on every string drawn, and generateLocators on the element whose
\* text is that string
InitEscape ==
    /\ str \in StringsUpTo(EscChars, MaxLen) \cup {OBrien}
    /\ escaped = PENDING
    /\ el = TextElement(str)
    /\ labels = <<>>
    /\ locators = NotCalled
    /\ tagArg = K_div
    /\ typeArg = UNDEFINED
    /\ inferred = NULL
    /\ gotLabelText = NULL
    /\ RecorderIdle
    /\ AgentInit

NextEscape == Escape \/ GenerateLocators

SpecEscape == InitEscape /\ [][NextEscape]_vars

\* inferRole on every tag name and type drawn
InitInferRole ==
    /\ tagArg \in InferTags
    /\ typeArg \in InferTypes
    /\ inferred = PENDING
    /\ el = TextElement(<<>>)
    /\ labels = <<>>
    /\ locators = [status |-> "idle"]
    /\ str = <<>>
    /\ escaped = <<>>
    /\ gotLabelText = NULL
    /\ RecorderIdle
    /\ AgentInit

NextInferRole == InferRole

SpecInferRole == InitInferRole /\ [][NextInferRole]_vars

\* the elements and documents getLabelText is called on
LabelIds == {<<>>, <<"a">>, <<"b">>, <<"a", "\"">>}
LabelTags == {T_DIV, T_INPUT, T_LABEL}
LabelDocuments ==
    { <<>>,
      <<[htmlFor |-> <<"a">>, innerText |-> <<" ", "N", "a", "m", "e">>]>>,
      <<[htmlFor |-> <<"b">>, innerText |-> <<"B">>],
        [htmlFor |-> <<"a">>, innerText |-> <<"F", "i", "r", "s", "t", "\n">>],
        [htmlFor |-> <<"a">>, innerText |-> <<"S", "e", "c", "o", "n", "d">>]>> }
LabelAncestorLists ==
    AncestorLists \cup
    { <<[tagName |-> T_LABEL, innerText |-> <<" ", "I", "n">>],
        [tagName |-> T_LABEL, innerText |-> <<"O", "u", "t">>]>> }

LabelElement(tag, id, text, ancestors) ==
    [TextElement(text) EXCEPT !.tagName = tag, !.id = id, !.ancestors = ancestors]

\* getLabelText on every element and document drawn for it
InitLabelText ==
    /\ el \in { LabelElement(t, id, it, an) :
                   t \in LabelTags, id \in LabelIds,
                   it \in {<<>>, <<"H", "i", " ">>}, an \in LabelAncestorLists }
    /\ labels \in LabelDocuments
    /\ gotLabelText = PENDING
    /\ locators = [status |-> "idle"]
    /\ str = <<>>
    /\ escaped = <<>>
    /\ tagArg = K_div
    /\ typeArg = UNDEFINED
    /\ inferred = NULL
    /\ RecorderIdle
    /\ AgentInit

NextLabelText == GetLabelText

SpecLabelText == InitLabelText /\ [][NextLabelText]_vars

\* the inputs of the debugger's Console and Network events
CdpMethods == {"Console.messageAdded", "Network.requestWillBeSent"}
CdpLevels == {"error", "warning", "log"}
PageErrorText == <<"b", "o", "o", "m">>
CdpTexts ==
    { UNDEFINED,
      PageErrorText,
      <<"C", "a", "r", "t", "_", "i", "t", "e", "m", "s">>,
      <<"n", "o", " ">> \o S_cart_items,
      S_object_Object \o <<"!">>,
      S_context_invalidated }

\* the recorder: the side panel, the background worker, the content script
\* of every tab, the debugger and the user
InitRecorder ==
    /\ RecorderInit
    /\ AgentInit
    /\ el = TextElement(<<>>)
    /\ labels = <<>>
    /\ locators = [status |-> "idle"]
    /\ str = <<>>
    /\ escaped = <<>>
    /\ tagArg = K_div
    /\ typeArg = UNDEFINED
    /\ inferred = NULL
    /\ gotLabelText = NULL

NextRecorder ==
    \/ ToggleRecording
    \/ SidebarReceive
    \/ \E t \in TabIds \cup {NoTab} : SwitchTab(t)
    \/ \E t \in TabIds, type \in EventTypes, target \in EventTargets,
          sendOk \in BOOLEAN : HandleEvent(t, type, target, sendOk)
    \/ \E t \in TabIds : ContentReceive(t)
    \/ \E i \in 1..Len(toBackground) : BackgroundReceive(i)
    \/ \E p \in pending : TabsQueryCallback(p)
    \/ \E p \in pending, ok \in BOOLEAN : AttachCallback(p, ok)
    \/ \E p \in pending : DetachCallback(p)
    \/ \E t \in TabIds :
          DebuggerEvent(t, "Console.messageAdded", "error", PageErrorText)
    \/ \E t \in TabIds : DebuggerDetached(t)

SpecRecorder == InitRecorder /\ [][NextRecorder]_vars

\* pages are replaced while the recorder is in the two states below: recording
\* on tab 1 has started; STOP_RECORDING has been received by the background
NextNavigation ==
    \/ \E t \in TabIds : PageLoad(t)
    \/ \E i \in 1..Len(toBackground) : BackgroundReceive(i)
    \/ \E t \in TabIds : ContentReceive(t)
    \/ \E t \in TabIds, type \in EventTypes, target \in EventTargets,
          sendOk \in BOOLEAN : HandleEvent(t, type, target, sendOk)

\* the debugger.onEvent listener on every event drawn, in two states of the
\* recorder with the debugger attached to tab t: recording on t has started;
\* and STOP_RECORDING has been received and the debugger not yet detached
StartedRequest(t) ==
    [type |-> "START_RECORDING", answer |-> "success", tab |-> t,
     attach |-> "succeeded", contentStart |-> {t}]

RecordingOn(t) ==
    /\ sbIsRecording = TRUE
    /\ bgIsRecording = TRUE
    /\ recordedSteps = <<NavigateStep(t, 0)>>
    /\ csIsRecording = [u \in TabIds |-> u = t]
    /\ activeTab = t
    /\ attached = {t}
    /\ toBackground = <<>>
    /\ toContent = [u \in TabIds |-> <<>>]
    /\ toSidebar = <<>>
    /\ pending = {}
    /\ requests = <<StartedRequest(t)>>
    /\ logs = [n |-> 2,
               last |-> printLog(<<"CDP Session started for tab ", ToString(t)>>,
                                 <<"info">>)]
    /\ clock = 0
    /\ lastEvent = NoEvent
    /\ cdpEvent = NoCdpEvent
    /\ session = <<NavigateStep(t, 0)>>

StopReceived(t) ==
    /\ sbIsRecording = TRUE
    /\ bgIsRecording = FALSE
    /\ recordedSteps = <<NavigateStep(t, 0)>>
    /\ csIsRecording = [u \in TabIds |-> u = t]
    /\ activeTab = t
    /\ attached = {t}
    /\ toBackground = <<>>
    /\ toContent = [u \in TabIds |-> <<>>]
    /\ toSidebar = <<>>
    /\ pending = {[call |-> "tabs.query", req |-> 2, tab |-> NoTab]}
    /\ requests = <<StartedRequest(t), NewRequest("STOP_RECORDING")>>
    /\ logs = [n |-> 3,
               last |-> printLog(<<"Recording stopped. Captured ", "1",
                                   " steps.">>, <<"success">>)]
    /\ clock = 0
    /\ lastEvent = NoEvent
    /\ cdpEvent = NoCdpEvent
    /\ session = <<NavigateStep(t, 0)>>

InitConsole ==
    /\ RecordingOn(1) \/ StopReceived(1)
    /\ AgentInit
    /\ el = TextElement(<<>>)
    /\ labels = <<>>
    /\ locators = [status |-> "idle"]
    /\ str = <<>>
    /\ escaped = <<>>
    /\ tagArg = K_div
    /\ typeArg = UNDEFINED
    /\ inferred = NULL
    /\ gotLabelText = NULL

InitNavigation == InitConsole

SpecNavigation == InitNavigation /\ [][NextNavigation]_vars

NextConsole ==
    \/ \E t \in TabIds, method \in CdpMethods, level \in CdpLevels,
          text \in CdpTexts : DebuggerEvent(t, method, level, text)
    \/ \E t \in TabIds : DebuggerDetached(t)

SpecConsole == InitConsole /\ [][NextConsole]_vars

\* the Run/Stop button, the 'run' and 'stop' handlers and the agent's runs
InitAgent == InitRecorder

NextAgent ==
    \/ \E prompt \in Prompts : HandleRunClick(prompt)
    \/ SidebarStop
    \/ RunReceive
    \/ StopReceive
    \/ \E i \in 1..MaxRuns, outcome \in InitializeOutcomes :
          MainReturns(i, outcome)
    \/ \E i \in 1..MaxRuns : RunSettles(i)

SpecAgent == InitAgent /\ [][NextAgent]_vars

\* GENERATE_MANUAL_TESTCASE requests and every outcome of their steps
InitManual == InitRecorder

NextManual ==
    \/ HandleGenerateManual
    \/ \E i \in 1..MaxManual : ManualReceive(i)
    \/ \E i \in 1..MaxManual, tab \in TabResults : TabsQueried(i, tab)
    \/ \E i \in 1..MaxManual, ping \in PingResults : PingDone(i, ping)
    \/ \E i \in 1..MaxManual : ContextTimeout(i)
    \/ \E i \in 1..MaxManual, res \in ContextReplies : ContextReply(i, res)
    \/ \E i \in 1..MaxManual, llm \in LlmResults : LlmDone(i, llm)

SpecManual == InitManual /\ [][NextManual]_vars

---------------------------------------------------------------------------
(* Claims                                                                  *)

Returned == locators.status = "returned"

\* what the chains read from the element in the current state
c_tag == ToLowerCase(el.tagName)
c_testId == DataTestIdOf(el)
c_role == RoleOf(el)
c_labelText == getLabelText(el, labels)
c_text == TextOf(el)
c_name == AccessibleName(getAttribute(el, "aria-label"), c_labelText, c_text)
c_tagWithClasses ==
    IF el.classList = <<>> THEN c_tag ELSE c_tag \o <<".">> \o Join(el.classList, <<".">>)

\* C1: once generateLocators has been called on an element, it has returned
\* a record whose playwright, css and xpath fields are all non-empty.
C1_AllFieldsNonEmpty ==
    locators # NotCalled =>
        /\ Returned
        /\ locators.playwright # <<>>
        /\ locators.css # <<>>
        /\ locators.xpath # <<>>

\* C2: generateLocators never fails: no call ends by raising an error,
\* whatever characters the id holds.
C2_NeverFails == locators.status # "threw"

\* C3: the playwright output is the result of the first matching condition
\* of: test id, role with accessible name, label (input, textarea, select),
\* placeholder, id, text, tag with dot-joined classes.
C3_PlaywrightFirstMatch ==
    Returned =>
        LET pw == locators.playwright
            m1 == Truthy(c_testId)
            m2 == Truthy(c_role) /\ Truthy(c_name)
            m3 == c_tag \in InputLikeTags /\ Truthy(c_labelText)
            m4 == Truthy(el.placeholder)
            m5 == Truthy(el.id)
            m6 == Truthy(c_text)
        IN  /\ m1 => pw = <<"page.getByTestId('">> \o c_testId \o <<"')">>
            /\ ~m1 /\ m2 =>
                 pw = <<"page.getByRole('">> \o c_role \o <<"', { name: '">>
                          \o escape(c_name) \o <<"' })">>
            /\ ~m1 /\ ~m2 /\ m3 =>
                 pw = <<"page.getByLabel('">> \o escape(c_labelText) \o <<"')">>
            /\ ~m1 /\ ~m2 /\ ~m3 /\ m4 =>
                 pw = <<"page.getByPlaceholder('">> \o escape(el.placeholder) \o <<"')">>
            /\ ~m1 /\ ~m2 /\ ~m3 /\ ~m4 /\ m5 =>
                 pw = <<"page.locator('#">> \o el.id \o <<"')">>
            /\ ~m1 /\ ~m2 /\ ~m3 /\ ~m4 /\ ~m5 /\ m6 =>
                 pw = <<"page.getByText('">> \o escape(c_text) \o <<"')">>
            /\ ~m1 /\ ~m2 /\ ~m3 /\ ~m4 /\ ~m5 /\ ~m6 => pw = c_tagWithClasses

\* an element with a test id and an id got the test-id selector
C3_Witness ==
    /\ Returned
    /\ Truthy(c_testId) /\ Truthy(el.id)
    /\ locators.playwright = <<"page.getByTestId('">> \o c_testId \o <<"')">>

\* C4: the css output is the result of the first matching condition of:
\* id, test id, data-test-id attribute, name, placeholder, tag with
\* dot-joined classes; with an id and a test id the output is #id.
C4_CssFirstMatch ==
    Returned =>
        LET css == locators.css
            attr2 == getAttribute(el, "data-test-id")
            m1 == Truthy(el.id)
            m2 == Truthy(c_testId)
            m3 == Truthy(attr2)
            m4 == Truthy(el.name)
            m5 == Truthy(el.placeholder)
        IN  /\ m1 => css = <<"#">> \o el.id
            /\ ~m1 /\ m2 => css = <<"[data-testid=\"">> \o c_testId \o <<"\"]">>
            /\ ~m1 /\ ~m2 /\ m3 => css = <<"[data-test-id=\"">> \o attr2 \o <<"\"]">>
            /\ ~m1 /\ ~m2 /\ ~m3 /\ m4 =>
                 css = c_tag \o <<"[name=\"">> \o el.name \o <<"\"]">>
            /\ ~m1 /\ ~m2 /\ ~m3 /\ ~m4 /\ m5 =>
                 css = c_tag \o <<"[placeholder=\"">> \o el.placeholder \o <<"\"]">>
            /\ ~m1 /\ ~m2 /\ ~m3 /\ ~m4 /\ ~m5 => css = c_tagWithClasses

\* an element with an id and a test id got #id
C4_Witness ==
    /\ Returned
    /\ Truthy(el.id) /\ Truthy(c_testId)
    /\ locators.css = <<"#">> \o el.id

\* C5: the xpath output is the result of the first matching condition of:
\* id, test id, data-test-id attribute, non-empty text, placeholder, name,
\* at least one class, and otherwise the default //tag.
C5_XpathFirstMatch ==
    Returned =>
        LET xp == locators.xpath
            attr2 == getAttribute(el, "data-test-id")
            m1 == Truthy(el.id)
            m2 == Truthy(c_testId)
            m3 == Truthy(attr2)
            m4 == Truthy(c_text)
            m5 == Truthy(el.placeholder)
            m6 == Truthy(el.name)
            m7 == Len(el.classList) >= 1
        IN  /\ m1 => xp = <<"//*[@id='">> \o el.id \o <<"']">>
            /\ ~m1 /\ m2 => xp = <<"//*[@data-testid='">> \o c_testId \o <<"']">>
            /\ ~m1 /\ ~m2 /\ m3 => xp = <<"//*[@data-test-id='">> \o attr2 \o <<"']">>
            /\ ~m1 /\ ~m2 /\ ~m3 /\ m4 =>
                 xp = <<"//">> \o c_tag \o <<"[contains(text(), '">>
                          \o escape(c_text) \o <<"')]">>
            /\ ~m1 /\ ~m2 /\ ~m3 /\ ~m4 /\ m5 =>
                 xp = <<"//">> \o c_tag \o <<"[@placeholder='">> \o el.placeholder \o <<"']">>
            /\ ~m1 /\ ~m2 /\ ~m3 /\ ~m4 /\ ~m5 /\ m6 =>
                 xp = <<"//">> \o c_tag \o <<"[@name='">> \o el.name \o <<"']">>
            /\ ~m1 /\ ~m2 /\ ~m3 /\ ~m4 /\ ~m5 /\ ~m6 /\ m7 =>
                 xp = <<"//">> \o c_tag \o <<"[@class='">>
                          \o Join(el.classList, <<" ">>) \o <<"']">>
            /\ ~m1 /\ ~m2 /\ ~m3 /\ ~m4 /\ ~m5 /\ ~m6 /\ ~m7 =>
                 xp = <<"//">> \o c_tag

\* an element with text, a placeholder and a name but no id and no test id
\* got the text selector
C5_Witness ==
    /\ Returned
    /\ ~Truthy(el.id) /\ ~Truthy(c_testId)
    /\ Truthy(c_text) /\ Truthy(el.placeholder) /\ Truthy(el.name)
    /\ locators.xpath = <<"//">> \o c_tag \o <<"[contains(text(), '">>
                            \o escape(c_text) \o <<"')]">>

\* C6: an element with a data-test-id attribute, no data-testid attribute
\* and no id gets css [data-test-id="value"] and xpath
\* //*[@data-test-id='value'].
C6_DataTestIdAttributeNamed ==
    ( /\ Returned
      /\ Truthy(getAttribute(el, "data-test-id"))
      /\ ~Truthy(getAttribute(el, "data-testid"))
      /\ ~Truthy(el.id) ) =>
        /\ locators.css =
              <<"[data-test-id=\"">> \o getAttribute(el, "data-test-id") \o <<"\"]">>
        /\ locators.xpath =
              <<"//*[@data-test-id='">> \o getAttribute(el, "data-test-id") \o <<"']">>

\* a single quote of page data that no backslash precedes
HasBareQuote(s) ==
    \E i \in 1..Len(s) : s[i] = "'" /\ (i = 1 \/ s[i - 1] # "\\")

\* C7: no single quote taken from the element appears unescaped inside the
\* playwright or the xpath output.
C7_NoBareQuote ==
    Returned => ~HasBareQuote(locators.playwright) /\ ~HasBareQuote(locators.xpath)

\* s[i..j] with every single quote replaced by backslash-quote and every
\* newline replaced by one space
RECURSIVE QuotedRange(_, _, _)
QuotedRange(s, i, j) ==
    IF i > j THEN <<>>
    ELSE (IF s[i] = "'" THEN <<"\\", "'">>
          ELSE IF s[i] = "\n" THEN <<" ">>
          ELSE <<s[i]>>) \o QuotedRange(s, i + 1, j)

\* the string the claim describes: white space cut off both ends, quotes
\* and newlines replaced in what is left
EscapeAsDescribed(s) ==
    LET inked == {i \in 1..Len(s) : s[i] \notin WhiteSpace}
    IN  IF inked = {} THEN <<>>
        ELSE QuotedRange(s, CHOOSE i \in inked : \A k \in inked : i <= k,
                            CHOOSE j \in inked : \A k \in inked : k <= j)

\* O\'Brien Row2
OBrienEscaped ==
    <<"O", "\\", "'", "B", "r", "i", "e", "n", " ", "R", "o", "w", "2">>

\* C8: escape(s) is s with every single quote replaced by backslash-quote,
\* every newline replaced by one space and the white space at both ends
\* removed; the element whose text is O'Brien<newline>Row2 gets a text
\* selector holding O\'Brien Row2.
C8_EscapeAsDescribed ==
    /\ escaped # PENDING => escaped = EscapeAsDescribed(str)
    /\ (Returned /\ str = OBrien) =>
          locators.playwright = <<"page.getByText('">> \o OBrienEscaped \o <<"')">>

\* escape and generateLocators have both run on O'Brien<newline>Row2
C8_Witness ==
    /\ str = OBrien
    /\ escaped = OBrienEscaped
    /\ Returned
    /\ locators.playwright = <<"page.getByText('">> \o OBrienEscaped \o <<"')">>

\* the documented table of inferRole
TableTags ==
    {K_button, K_a, K_img, K_select, K_textarea, K_h1, K_h2, K_h3, K_h4, K_h5, K_h6}
TableRole(tag) ==
    CASE tag = K_button -> <<"button">>
      [] tag = K_a -> <<"link">>
      [] tag = K_img -> <<"img">>
      [] tag = K_select -> <<"combobox">>
      [] tag = K_textarea -> <<"textbox">>
      [] OTHER -> <<"heading">>
TableInputRole(type) ==
    CASE type \in {K_button, K_submit} -> <<"button">>
      [] type = K_checkbox -> <<"checkbox">>
      [] type = K_radio -> <<"radio">>
      [] type \in {K_text, K_email, K_password} -> <<"textbox">>
      [] type = K_search -> <<"searchbox">>
      [] type = K_number -> <<"spinbutton">>
      [] OTHER -> <<"textbox">>

\* C9: inferRole agrees with the documented table: the fixed role of
\* button, a, img, select, textarea, h1..h6; for input the role of its
\* type, textbox for any other non-empty type; the tag name is matched
\* without regard to case.
C9_InferRoleTable ==
    inferred # PENDING =>
        LET tag == ToLowerCase(tagArg)
        IN  /\ tag \in TableTags => inferred = TableRole(tag)
            /\ (tag = K_input /\ typeArg \notin {UNDEFINED, <<>>}) =>
                  inferred = TableInputRole(typeArg)

RoleStrings ==
    { <<"button">>, <<"link">>, <<"img">>, <<"combobox">>, <<"textbox">>,
      <<"heading">>, <<"checkbox">>, <<"radio">>, <<"searchbox">>,
      <<"spinbutton">> }

\* C10: for every tag name and every type, absent and empty included,
\* inferRole returns null or one of the ten role strings, and for a
\* combination outside the table only null or textbox.
C10_RoleOrNull ==
    inferred # PENDING =>
        /\ inferred \in RoleStrings \cup {NULL}
        /\ ( /\ ToLowerCase(tagArg) \notin TableTags
             /\ ~(ToLowerCase(tagArg) = K_input /\ typeArg \in DOMAIN roleMapInput) ) =>
              inferred \in {NULL, <<"textbox">>}

\* a role selector, and the role and the name it embeds
IsRoleSelector(pw) == pw # <<>> /\ pw[1] = "page.getByRole('"
NameMark(pw) == CHOOSE k \in 1..Len(pw) : pw[k] = "', { name: '"
EmbeddedRole(pw) == SubSeq(pw, 2, NameMark(pw) - 1)
EmbeddedName(pw) == SubSeq(pw, NameMark(pw) + 1, Len(pw) - 1)

\* C11: a role selector embeds the explicit role attribute when that
\* attribute is present and non-empty, and the role inferred from tag and
\* type only otherwise.
C11_ExplicitRoleWins ==
    (Returned /\ IsRoleSelector(locators.playwright)) =>
        EmbeddedRole(locators.playwright) =
            IF getAttribute(el, "role") \notin {NULL, <<>>}
            THEN getAttribute(el, "role")
            ELSE inferRole(c_tag, el.type)

\* a button with role="tab" got a selector for the role tab
C11_Witness ==
    /\ Returned /\ IsRoleSelector(locators.playwright)
    /\ c_tag = K_button
    /\ getAttribute(el, "role") = <<"t", "a", "b">>
    /\ EmbeddedRole(locators.playwright) = <<"t", "a", "b">>

\* C12: the name of a role selector is the first non-empty value among
\* aria-label, label text and visible text, in that order.
C12_AccessibleNameOrder ==
    (Returned /\ IsRoleSelector(locators.playwright)) =>
        LET aria == getAttribute(el, "aria-label")
            first == IF aria \notin {NULL, <<>>} THEN aria
                     ELSE IF c_labelText \notin {NULL, <<>>} THEN c_labelText
                     ELSE c_text
        IN  EmbeddedName(locators.playwright) = escape(first)

\* aria-label, label text and text are all present and aria-label is used
C12_Witness ==
    /\ Returned /\ IsRoleSelector(locators.playwright)
    /\ getAttribute(el, "aria-label") = <<"L">>
    /\ Truthy(c_labelText) /\ Truthy(c_text)
    /\ EmbeddedName(locators.playwright) = <<"L">>

\* the strings of list glued with sep between neighbours, in list order
RECURSIVE Glue(_, _, _)
Glue(list, sep, i) ==
    IF i > Len(list) THEN <<>>
    ELSE (IF i = 1 THEN <<>> ELSE sep) \o list[i] \o Glue(list, sep, i + 1)

\* the element of claim C13: nothing but a tag and classes
BareElement ==
    /\ ~Truthy(c_role)
    /\ ~Truthy(el.id) /\ ~Truthy(c_testId) /\ ~Truthy(el.name)
    /\ ~Truthy(el.placeholder)
    /\ c_labelText = NULL
    /\ ~Truthy(c_text)

\* C13: an element with no role, id, test id, name, placeholder, label or
\* text and classes c1..cn gets css and playwright tag.c1.....cn and xpath
\* //tag[@class='c1 ... cn'] (div.card.active, //div[@class='card active']);
\* with no classes tag, tag and //tag.
C13_ClassFallback ==
    (Returned /\ BareElement) =>
        /\ el.classList # <<>> =>
              /\ locators.css = c_tag \o <<".">> \o Glue(el.classList, <<".">>, 1)
              /\ locators.playwright = c_tag \o <<".">> \o Glue(el.classList, <<".">>, 1)
              /\ locators.xpath =
                    <<"//">> \o c_tag \o <<"[@class='">>
                        \o Glue(el.classList, <<" ">>, 1) \o <<"']">>
        /\ el.classList = <<>> =>
              /\ locators.css = c_tag
              /\ locators.playwright = c_tag
              /\ locators.xpath = <<"//">> \o c_tag
        /\ (c_tag = K_div /\ el.classList =
                << <<"c", "a", "r", "d">>, <<"a", "c", "t", "i", "v", "e">> >>) =>
              /\ locators.css =
                    <<"d", "i", "v", ".", "c", "a", "r", "d", ".",
                      "a", "c", "t", "i", "v", "e">>
              /\ locators.xpath =
                    <<"//", "d", "i", "v", "[@class='", "c", "a", "r", "d", " ",
                      "a", "c", "t", "i", "v", "e", "']">>

\* the div with classes card, active and nothing else
C13_Witness ==
    /\ Returned /\ BareElement
    /\ c_tag = K_div
    /\ el.classList = << <<"c", "a", "r", "d">>, <<"a", "c", "t", "i", "v", "e">> >>
    /\ locators.playwright = locators.css

\* values of the name property a second element may have
NameVariants == {UNDEFINED, <<>>, <<"n">>, <<"m">>}

\* the locators of the element that differs from el in its name only
WithName(nm) == generateLocators([el EXCEPT !.name = nm], labels)

\* C14: two elements identical except for their name attribute get the
\* same playwright string.
C14_PlaywrightIgnoresName ==
    Returned =>
        \A nm \in NameVariants : WithName(nm).playwright = locators.playwright

\* an element with a name whose playwright output is the test-id selector
C14_Witness ==
    /\ Returned
    /\ Truthy(el.name) /\ Truthy(c_testId)
    /\ locators.playwright = <<"page.getByTestId('">> \o c_testId \o <<"')">>
    /\ WithName(<<"m">>).playwright = locators.playwright

\* C15 as stated: two elements with no id, identical except for the value
\* of their name attribute, get different css outputs.
C15_NameChangesCss ==
    (Returned /\ ~Truthy(el.id)) =>
        \A nm \in NameVariants : nm # el.name => WithName(nm).css # locators.css

\* C15 as amended: two elements with no id and no test id (neither
\* data-testid nor data-test-id), identical except for their name values,
\* which differ and are not both empty or absent, get different css outputs.
C15_NameChangesCssWithoutTestId ==
    (Returned /\ ~Truthy(el.id) /\ ~Truthy(c_testId)) =>
        \A nm \in NameVariants :
            (nm # el.name /\ (Truthy(nm) \/ Truthy(el.name))) =>
                WithName(nm).css # locators.css

\* an element with a name and a placeholder, no id and no test id, whose
\* css names the name attribute
C15_Witness ==
    /\ Returned
    /\ ~Truthy(el.id) /\ ~Truthy(c_testId)
    /\ Truthy(el.name) /\ Truthy(el.placeholder)
    /\ locators.css = c_tag \o <<"[name=\"">> \o el.name \o <<"\"]">>
    /\ WithName(<<"m">>).css # locators.css

\* C16: getLabelText returns the trimmed text of the label whose for
\* attribute equals the element's id when there is an id and such a label
\* (also for an element nested in another label); otherwise the trimmed
\* text of the nearest enclosing label; and null when neither exists.
C16_LabelResolution ==
    gotLabelText # PENDING =>
        LET forLabels == {i \in 1..Len(labels) : labels[i].htmlFor = el.id}
            enclosing == {i \in 1..Len(el.ancestors) :
                             ToLowerCase(el.ancestors[i].tagName) = K_label}
        IN  gotLabelText =
              IF el.id # <<>> /\ forLabels # {}
              THEN Trim(labels[CHOOSE i \in forLabels : \A k \in forLabels : i <= k].innerText)
              ELSE IF enclosing # {}
              THEN Trim(el.ancestors[CHOOSE i \in enclosing :
                                        \A k \in enclosing : i <= k].innerText)
              ELSE NULL


\* ---- the recorder (SpecRecorder) ----

\* the message a step has just put at the end of the queue q, if it did
Sent(q, q2) == Len(q2) = Len(q) + 1 /\ SubSeq(q2, 1, Len(q)) = q

\* C17: while the content script's isRecording is true, each click, input
\* or change event on an element sends exactly one RECORDED_STEP message to
\* the background; while it is false the event sends no message and no
\* locators are generated.
C17_OneStepPerEvent ==
    [][clock' # clock /\ lastEvent'.element =>
          LET t == lastEvent'.tab
          IN  IF csIsRecording[t]
              THEN /\ Sent(toBackground, toBackground')
                   /\ toBackground'[Len(toBackground')].type = "RECORDED_STEP"
                   /\ toBackground'[Len(toBackground')].tab = t
              ELSE /\ toBackground' = toBackground
                   /\ ~lastEvent'.located]_vars

\* the texts the claim lists as noise
NoiseTexts == {S_cart_items, S_object_Object, S_context_invalidated}

\* C18: a debugger event makes the background print a log exactly when the
\* background is recording, the event is a console message of level error
\* and its text contains none of 'cart_items', '[object Object]',
\* 'Extension context invalidated'; the log is then 'Page Error: ' followed
\* by the text, at level error.  In every other case no log is printed.
C18_PageErrorFilter ==
    [][cdpEvent' # cdpEvent =>
          LET txt == IF cdpEvent'.text = UNDEFINED THEN <<>>
                     ELSE cdpEvent'.text
              forwarded ==
                  /\ bgIsRecording
                  /\ cdpEvent'.method = "Console.messageAdded"
                  /\ cdpEvent'.level = "error"
                  /\ \A noise \in NoiseTexts : ~Includes(txt, noise)
          IN  IF forwarded
              THEN /\ logs'.n = logs.n + 1
                   /\ logs'.last.log = <<"Page Error: ">> \o txt
                   /\ logs'.last.level = <<"error">>
              ELSE logs' = logs]_vars

\* a page error has been forwarded
C18_Witness ==
    /\ cdpEvent.n > 0
    /\ logs.n > 0
    /\ logs.last.log = <<"Page Error: ", "C", "a", "r", "t", "_", "i", "t",
                         "e", "m", "s">>

\* a response to STOP_RECORDING put in flight by this step
StopResponseSent ==
    /\ Sent(toSidebar, toSidebar')
    /\ toSidebar'[Len(toSidebar')].type = "STOP_RECORDING response"

\* C19: recordedSteps is, in arrival order, the steps of the RECORDED_STEP
\* messages received while isRecording was true since the most recent
\* START_RECORDING (session), and every response to STOP_RECORDING carries
\* exactly that list.
C19_StepsOfSession ==
    /\ [](recordedSteps = session)
    /\ [][StopResponseSent =>
              toSidebar'[Len(toSidebar')].steps = session']_vars

\* a STOP_RECORDING response carries the navigate step and then the step of
\* a DOM event, after the background has stopped recording
C19_Witness ==
    /\ \E i \in 1..Len(toSidebar) :
          /\ toSidebar[i].type = "STOP_RECORDING response"
          /\ Len(toSidebar[i].steps) = 2
          /\ toSidebar[i].steps[1].type = "navigate"
          /\ toSidebar[i].steps[2].type \in EventTypes
          /\ toSidebar[i].steps = recordedSteps
    /\ ~bgIsRecording

\* C20: a START_RECORDING message goes to a tab's content script only for a
\* request whose debugger attach to that tab has succeeded; a request whose
\* attach failed, or that found no active tab, never has one sent.
C20_StartOnlyAfterAttach ==
    /\ \A r \in 1..Len(requests) :
          LET q == requests[r]
          IN  /\ q.contentStart # {} =>
                     /\ q.type = "START_RECORDING"
                     /\ q.attach = "succeeded"
                     /\ q.contentStart = {q.tab}
              /\ q.answer \in {"attach failed", "No active tab"} =>
                     q.contentStart = {}
    /\ \A t \in TabIds : \A i \in 1..Len(toContent[t]) :
          toContent[t][i].type = "START_RECORDING" =>
              /\ requests[toContent[t][i].req].attach = "succeeded"
              /\ requests[toContent[t][i].req].tab = t

\* one request has started the content script of tab 2 after its attach,
\* another has been refused
C20_Witness ==
    /\ \E r \in 1..Len(requests) :
          /\ requests[r].contentStart = {2}
          /\ requests[r].answer = "success"
    /\ \E r \in 1..Len(requests) :
          requests[r].answer \in {"attach failed", "No active tab"}

\* ---- the locator generator again (Spec) ----

\* C22: the name embedded in a role selector is never empty, whatever the
\* aria-label, label text and visible text, values made of white space
\* included.
C22_RoleNameNonEmpty ==
    (Returned /\ IsRoleSelector(locators.playwright)) =>
        EmbeddedName(locators.playwright) # <<>>

\* a label selector
IsLabelSelector(pw) == pw # <<>> /\ pw[1] = "page.getByLabel('"

\* C29: generateLocators never returns a label selector: an input, textarea
\* or select with a non-empty label text always has a role and a non-empty
\* accessible name, so it gets a test id selector or a role selector.
C29_LabelBranchUnreachable ==
    Returned =>
        /\ ~IsLabelSelector(locators.playwright)
        /\ (c_tag \in InputLikeTags /\ c_labelText \notin {NULL, <<>>}) =>
               /\ c_role \notin {NULL, UNDEFINED, <<>>}
               /\ c_name \notin {NULL, UNDEFINED, <<>>}
               /\ \/ locators.playwright[1] = "page.getByTestId('"
                  \/ IsRoleSelector(locators.playwright)

\* an input with a label and no test id, aria-label or explicit role got a
\* role selector named by the label
C29_Witness ==
    /\ Returned
    /\ c_tag = K_input
    /\ c_labelText = <<"N", "a", "m", "e">>
    /\ ~Truthy(c_testId)
    /\ getAttribute(el, "aria-label") = NULL
    /\ getAttribute(el, "role") = NULL
    /\ IsRoleSelector(locators.playwright)
    /\ EmbeddedName(locators.playwright) = <<"N", "a", "m", "e">>

\* ---- the recorder again ----

\* the callback of tab t's CHECK_RECORDING_STATE runs in this step
CheckAnswered(t) ==
    /\ toContent[t] # <<>>
    /\ Head(toContent[t]).type = "CHECK_RECORDING_STATE response"
    /\ toContent'[t] = Tail(toContent[t])

\* C21: when a content script has loaded and learns the recording state
\* while the background's isRecording is true, its own isRecording becomes
\* true and it sends a navigate step with the page's URL for the background
\* to append to recordedSteps.
C21_ResumeOnLoad ==
    [][\A t \in TabIds :
          (CheckAnswered(t) /\ bgIsRecording) =>
              /\ csIsRecording'[t]
              /\ Sent(toBackground, toBackground')
              /\ toBackground'[Len(toBackground')].type = "RECORDED_STEP"
              /\ toBackground'[Len(toBackground')].step.type = "navigate"
              /\ toBackground'[Len(toBackground')].step.value = Href(t)]_vars

\* no message is in flight and no callback of the background is due
Quiescent ==
    /\ toBackground = <<>>
    /\ toSidebar = <<>>
    /\ \A t \in TabIds : toContent[t] = <<>>
    /\ pending = {}

\* the START_RECORDING requests made before request r
StartsBefore(r) ==
    {q \in 1..(r - 1) : requests[q].type = "START_RECORDING"}

\* C23: once the background has handled STOP_RECORDING and everything it
\* sent has been delivered, the content script started for that session
\* (by the last START_RECORDING before the stop) has isRecording = false,
\* whatever tab switches happened between the start and the stop.
C23_StopReachesStartedTab ==
    (/\ Quiescent
     /\ requests # <<>>
     /\ requests[Len(requests)].type = "STOP_RECORDING"
     /\ StartsBefore(Len(requests)) # {}) =>
        LET start == CHOOSE q \in StartsBefore(Len(requests)) :
                         \A p \in StartsBefore(Len(requests)) : p <= q
        IN  \A t \in requests[start].contentStart : ~csIsRecording[t]

\* C24: in the step that answers a START_RECORDING request with
\* success: false, for an attach error or for no active tab, the
\* background's isRecording is false afterwards.
C24_FailedStartStopsRecording ==
    [][\A r \in 1..Len(requests) :
          (/\ requests[r].type = "START_RECORDING"
           /\ requests[r].answer = "none"
           /\ requests'[r].answer \in {"attach failed", "No active tab"}) =>
              ~bgIsRecording']_vars

\* nothing is pending between the side panel and the background
SidebarQuiet ==
    /\ \A i \in 1..Len(toBackground) : toBackground[i].tab # NoTab
    /\ toSidebar = <<>>
    /\ pending = {}

\* C28: whenever nothing is pending between the side panel and the
\* background, the side panel's isRecording equals the background's.
C28_SidebarAgreesWithBackground ==
    SidebarQuiet => sbIsRecording = bgIsRecording

\* ---- the agent runner (SpecAgent) ----

\* run i is over: main returned no agent, or the promise of eko.run settled
RunEnded(i) == agentRuns[i].phase \in EndedPhases

\* nothing is on its way and no run is still going
AgentQuiet ==
    /\ agentMsgs = <<>>
    /\ stopMsgs = 0
    /\ \A i \in DOMAIN agentRuns : RunEnded(i)

\* C25: every 'run' request is followed by a 'stop' message of the
\* background and by running = false in the storage, whatever main does:
\* once a run is over a 'stop' message has been sent for it, and once every
\* run is over and every message is handled the storage holds
\* running = false
C25_RunEndsWithStop ==
    /\ \A i \in DOMAIN agentRuns : RunEnded(i) => agentRuns[i].stopSent
    /\ (AgentQuiet /\ agentRuns # <<>>) => ~storageRunning

\* C26: once the background has handled a 'stop' request, no task of a run
\* received before that stop is running, now or later, including a run
\* whose main had not returned when the stop arrived
C26_StopAbortsEarlierRuns ==
    \A i \in DOMAIN agentRuns :
        agentRuns[i].stopped => agentRuns[i].phase # "running"

\* ---- the manual test case generator (SpecManual) ----

\* a MANUAL_TESTCASE_GENERATED message carries testcases or an error, not
\* both and not neither
CarriesOne(m) == (m.testcases = UNDEFINED) # (m.error = UNDEFINED)

\* C27: a GENERATE_MANUAL_TESTCASE request never has more than one
\* MANUAL_TESTCASE_GENERATED message, it has exactly one when its handler
\* has finished, whichever step failed, and the message carries either
\* testcases or an error; a reply of the content script that comes after
\* the timeout adds no message
C27_OneManualAnswer ==
    \A i \in DOMAIN manual :
        /\ Len(manual[i].sent) <= 1
        /\ manual[i].phase = "done" => Len(manual[i].sent) = 1
        /\ \A k \in DOMAIN manual[i].sent : CarriesOne(manual[i].sent[k])
        /\ manual[i].phase # "done" => manual[i].sent = <<>>

\* a request that timed out and whose content script replied afterwards,
\* next to a request that got its test cases
C27_Witness ==
    /\ Len(manual) = 2
    /\ manual[1].phase = "done"
    /\ manual[1].sent = <<[testcases |-> UNDEFINED, error |-> E_timeout]>>
    /\ manual[1].context = "rejected"
    /\ ~manual[1].reply
    /\ manual[2].phase = "done"
    /\ manual[2].sent = <<[testcases |-> LlmContent, error |-> UNDEFINED]>>

=============================================================================
